---------------------------- MODULE Spec2Model ----------------------------
(***************************************************************************)
(* Verification model of the neo4j-context-bridge MCP server: the token    *)
(* budgeted context injector, the inject_context tool, the hybrid search   *)
(* engine, the extraction pipeline with its graph writes, the tool         *)
(* registration, the embedding cache, the knowledge-graph storage, the text *)
(* chunking of the local embeddings, and the relationship detector.        *)
(*                                                                         *)
(* Each component has its own variables and its own specification; a       *)
(* specification leaves the variables of the other components untouched.   *)
(***************************************************************************)
EXTENDS Integers, Sequences, FiniteSets, TLC

VARIABLES
    inj_call,     \* the last injection call: operation, inputs and result
    srch_call,    \* the last SemanticSearch call: inputs, backend outcomes, result
    ext_call,     \* the last call of a ContextExtractor function: inputs and result
    g_session,    \* the server started and the login of its props
    g_chats,      \* the Chat nodes of the graph
    g_ctx,        \* the Context nodes of the graph
    g_edges,      \* the relationships of the graph
    g_notes,      \* number of nodes created by free Cypher statements
    g_nid,        \* the next internal node / relationship id of the database
    g_issued,     \* number of context ids generateContextId has handed out
    g_calls,      \* number of tool calls made in the session
    g_last,       \* the last tool call: tool, inputs, response, items kept and dropped
    g_done,       \* the inputs of the extract_context calls that succeeded
    emb_proc,     \* the generateEmbedding calls in progress: position and locals
    emb_cache,    \* the key-value cache of the embeddings service
    emb_runs,     \* number of model runs started
    kg_entities,  \* the Entity nodes of the knowledge graph
    kg_last,      \* the last knowledge-graph tool call: inputs and response
    chunk_call,   \* the chunkText call in progress: position and locals
    det_call      \* the last call of a RelationshipDetector function: input and result

injVars == <<inj_call>>
srchVars == <<srch_call>>
extVars == <<ext_call>>
storeVars == <<g_session, g_chats, g_ctx, g_edges, g_notes, g_nid, g_issued,
               g_calls, g_last, g_done>>
embVars == <<emb_proc, emb_cache, emb_runs>>
kgVars == <<kg_entities, kg_last>>
chunkVars == <<chunk_call>>
detVars == <<det_call>>

vars == <<inj_call, srch_call, ext_call, g_session, g_chats, g_ctx, g_edges,
          g_notes, g_nid, g_issued, g_calls, g_last, g_done,
          emb_proc, emb_cache, emb_runs, kg_entities, kg_last, chunk_call,
          det_call>>

(***************************************************************************)
(* Generic helpers                                                         *)
(***************************************************************************)

\* Math.min
Min(a, b) == IF a <= b THEN a ELSE b

\* Math.ceil(a / b) for naturals a, b > 0
CeilDiv(a, b) == (a + b - 1) \div b

RECURSIVE SumSeq(_)
SumSeq(s) == IF s = <<>> THEN 0 ELSE Head(s) + SumSeq(Tail(s))

\* All sequences over S of length 0..n
SeqsUpTo(S, n) == UNION {[1..k -> S] : k \in 0..n}

(***************************************************************************)
(* Context injector (src/src/injection/context-injector.ts)                *)
(***************************************************************************)

\* Bounds of the injector inputs
MaxResults == 3

ContextTypes == {"code", "decision", "requirement", "discussion", "error"}
Formats == {"full", "summary", "reference"}

\* Scoring profiles of a search result, in percent: relevance (the search
\* score), recency (exp(-days/30) at the moment of the call), importance.
Profiles ==
    { [relevance |-> 100, recency |-> 100, importance |-> 100, ctype |-> "error"],
      [relevance |-> 60,  recency |-> 50,  importance |-> 50,  ctype |-> "discussion"] }

TokenCounts == {10, 30, 150}
\* length of context.summary in characters; 0 stands for an absent/empty summary
SummaryLens == {0, 158}
MaxTokensChoices == {30, 40, 100, 200}

SearchResults ==
    { [relevance |-> p.relevance, recency |-> p.recency,
       importance |-> p.importance, ctype |-> p.ctype,
       tokenCount |-> t, summaryLen |-> s] :
        p \in Profiles, t \in TokenCounts, s \in SummaryLens }

\* defaultPriorityFactors, in percent; the type multipliers in tenths
RelevanceWeight == 50
RecencyWeight == 20
ImportanceWeight == 30
TypeMultiplier(ctype) ==
    CASE ctype = "error" -> 12
      [] ctype = "requirement" -> 11
      [] ctype = "decision" -> 10
      [] ctype = "code" -> 9
      [] ctype = "discussion" -> 7

\* combinedScore of prioritizeContexts, scaled by 10^5 (percent * percent * tenths)
CombinedScore(r) ==
    r.relevance * RelevanceWeight * 10
    + r.recency * RecencyWeight * 10
    + r.importance * ImportanceWeight * TypeMultiplier(r.ctype)

\* criticalThreshold = 0.8 on the same scale
CriticalThreshold == 80000

\* stable insertion of x into a list sorted by descending score
RECURSIVE InsertByScore(_, _)
InsertByScore(x, s) ==
    IF s = <<>> THEN <<x>>
    ELSE IF Head(s).score >= x.score THEN <<Head(s)>> \o InsertByScore(x, Tail(s))
         ELSE <<x>> \o s

\* .sort((a, b) => b.score - a.score), a stable sort
RECURSIVE SortByScore(_)
SortByScore(s) ==
    IF s = <<>> THEN <<>>
    ELSE InsertByScore(s[Len(s)], SortByScore(SubSeq(s, 1, Len(s) - 1)))

\* prioritizeContexts: each result keeps its fields and gets the combined score;
\* id is the position of the result in the list that search returned
prioritizeContexts(results) ==
    SortByScore([i \in 1..Len(results) |->
        [id |-> i,
         score |-> CombinedScore(results[i]),
         tokenCount |-> results[i].tokenCount,
         summaryLen |-> results[i].summaryLen]])

\* estimateTokens(text) = Math.ceil(text.length / 4)
estimateTokens(len) == CeilDiv(len, 4)

\* tokens charged for the reference format
RefTokens == 50

Entry(result, format, tokens) ==
    [id |-> result.id, score |-> result.score, format |-> format, tokens |-> tokens]

NotAdded(selected, currentTokens) ==
    [added |-> FALSE, selected |-> selected, totalTokens |-> currentTokens]

\* an addition that leaves the running total as it was
AddedUncounted(selected, result, format, tokens, currentTokens) ==
    [added |-> TRUE,
     selected |-> Append(selected, Entry(result, format, tokens)),
     totalTokens |-> currentTokens]

Added(selected, result, format, tokens, currentTokens) ==
    [added |-> TRUE,
     selected |-> Append(selected, Entry(result, format, tokens)),
     totalTokens |-> currentTokens + tokens]

\* tryAddContext with the reference format added without the budget test
tryAddContextUnchecked(result, selected, currentTokens, maxTokens, preferredFormat) ==
    IF preferredFormat = "reference"
    THEN Added(selected, result, "reference", RefTokens, currentTokens)
    ELSE IF preferredFormat = "full" /\ currentTokens + result.tokenCount <= maxTokens
    THEN Added(selected, result, "full", result.tokenCount, currentTokens)
    ELSE IF result.summaryLen > 0
            /\ currentTokens + estimateTokens(result.summaryLen) <= maxTokens
    THEN Added(selected, result, "summary", estimateTokens(result.summaryLen), currentTokens)
    ELSE IF currentTokens + RefTokens <= maxTokens
    THEN Added(selected, result, "reference", RefTokens, currentTokens)
    ELSE NotAdded(selected, currentTokens)

\* tryAddContext: the first format that fits, in the order the code tries them
tryAddContext(result, selected, currentTokens, maxTokens, preferredFormat) ==
    IF preferredFormat = "reference" /\ currentTokens + RefTokens <= maxTokens
    THEN Added(selected, result, "reference", RefTokens, currentTokens)
    ELSE IF preferredFormat = "full" /\ currentTokens + result.tokenCount <= maxTokens
    THEN Added(selected, result, "full", result.tokenCount, currentTokens)
    ELSE IF result.summaryLen > 0
            /\ currentTokens + estimateTokens(result.summaryLen) <= maxTokens
    THEN Added(selected, result, "summary", estimateTokens(result.summaryLen), currentTokens)
    ELSE IF currentTokens + RefTokens <= maxTokens
    THEN Added(selected, result, "reference", RefTokens, currentTokens)
    ELSE NotAdded(selected, currentTokens)

\* the loop over criticalContexts
RECURSIVE AddCritical(_, _, _, _)
AddCritical(list, acc, maxTokens, format) ==
    IF list = <<>> THEN acc
    ELSE LET added == tryAddContext(Head(list), acc.selected, acc.totalTokens,
                                    maxTokens, format)
         IN AddCritical(Tail(list),
                        [acc EXCEPT !.selected = added.selected,
                                    !.totalTokens = added.totalTokens],
                        maxTokens, format)

\* totalTokens >= maxTokens * 0.9
BudgetNearlyUsed(totalTokens, maxTokens) == 10 * totalTokens >= 9 * maxTokens

\* the loop over regularContexts, with its break
RECURSIVE AddRegular(_, _, _, _)
AddRegular(list, acc, maxTokens, format) ==
    IF list = <<>> THEN acc
    ELSE LET added == tryAddContext(Head(list), acc.selected, acc.totalTokens,
                                    maxTokens, format)
         IN IF added.added
            THEN AddRegular(Tail(list),
                            [acc EXCEPT !.selected = added.selected,
                                        !.totalTokens = added.totalTokens],
                            maxTokens, format)
            ELSE IF BudgetNearlyUsed(acc.totalTokens, maxTokens)
            THEN [acc EXCEPT !.strategy = "token_limit_reached"]
            ELSE AddRegular(Tail(list), acc, maxTokens, format)

IsCritical(r) == r.score >= CriticalThreshold
IsRegular(r) == r.score < CriticalThreshold

\* the forced-summary step of selectContextsWithinBudget
ForcedSummary(results, acc, maxTokens) ==
    IF acc.selected = <<>> /\ results # <<>>
       /\ estimateTokens(results[1].summaryLen) <= maxTokens
    THEN [selected |-> <<Entry(results[1], "summary",
                               estimateTokens(results[1].summaryLen))>>,
          totalTokens |-> estimateTokens(results[1].summaryLen),
          strategy |-> "forced_summary"]
    ELSE acc

selectContextsWithinBudget(results, maxTokens, format) ==
    LET start == [selected |-> <<>>, totalTokens |-> 0, strategy |-> "standard"]
        afterCritical == AddCritical(SelectSeq(results, IsCritical), start,
                                     maxTokens, format)
        afterRegular == AddRegular(SelectSeq(results, IsRegular), afterCritical,
                                   maxTokens, format)
        final == ForcedSummary(results, afterRegular, maxTokens)
    IN [outcome |-> "returned",
        contexts |-> final.selected,
        totalTokens |-> final.totalTokens,
        injectionStrategy |-> final.strategy]

SearchThrew ==
    [outcome |-> "threw", contexts |-> <<>>, totalTokens |-> 0,
     injectionStrategy |-> "none"]

\* prepareContextForInjection: search, then prioritise, then select
prepareContextForInjection(searchOk, results, maxTokens, format) ==
    IF ~searchOk THEN SearchThrew
    ELSE IF Len(results) = 0
    THEN [outcome |-> "returned", contexts |-> <<>>, totalTokens |-> 0,
          injectionStrategy |-> "no_results"]
    ELSE selectContextsWithinBudget(prioritizeContexts(results), maxTokens, format)

NoCall ==
    [op |-> "none", searchOk |-> TRUE, results |-> <<>>, maxTokens |-> 0,
     format |-> "full", out |-> SearchThrew]

InjInit == inj_call = NoCall

\* ContextInjector.prepareContextForInjection called with any options
PrepareContextForInjection ==
    /\ inj_call.op = "none"
    /\ \E searchOk \in BOOLEAN, results \in SeqsUpTo(SearchResults, MaxResults),
       maxTokens \in MaxTokensChoices, format \in Formats :
        inj_call' = [op |-> "prepare", searchOk |-> searchOk, results |-> results,
                     maxTokens |-> maxTokens, format |-> format,
                     out |-> prepareContextForInjection(searchOk, results,
                                                        maxTokens, format)]
    /\ UNCHANGED <<srchVars, extVars, storeVars, embVars, kgVars, chunkVars, detVars>>


(***************************************************************************)
(* inject_context tool (src/unnamed/part_009, registerInjectionTools)      *)
(***************************************************************************)

ToolEntry(result, format) ==
    [id |-> result.id, score |-> result.score, format |-> format]

\* one iteration of the tool's loop body, before the break test
InjectOne(result, acc, maxTokens, format) ==
    IF format = "reference"
    THEN [selected |-> Append(acc.selected, ToolEntry(result, "reference")),
          totalTokens |-> acc.totalTokens + 50]
    ELSE IF format = "summary" /\ result.summaryLen > 0
    THEN IF acc.totalTokens + CeilDiv(result.summaryLen, 4) <= maxTokens
         THEN [selected |-> Append(acc.selected, ToolEntry(result, "summary")),
               totalTokens |-> acc.totalTokens + CeilDiv(result.summaryLen, 4)]
         ELSE acc
    ELSE IF acc.totalTokens + result.tokenCount <= maxTokens
    THEN [selected |-> Append(acc.selected, ToolEntry(result, "full")),
          totalTokens |-> acc.totalTokens + result.tokenCount]
    ELSE IF result.summaryLen > 0
            /\ acc.totalTokens + CeilDiv(result.summaryLen, 4) <= maxTokens
    THEN [selected |-> Append(acc.selected, ToolEntry(result, "summary")),
          totalTokens |-> acc.totalTokens + CeilDiv(result.summaryLen, 4)]
    ELSE acc

\* the tool's loop: for (const result of results) { ...; if (>= 90%) break; }
RECURSIVE InjectLoop(_, _, _, _)
InjectLoop(list, acc, maxTokens, format) ==
    IF list = <<>> THEN acc
    ELSE LET next == InjectOne(Head(list), acc, maxTokens, format)
         IN IF BudgetNearlyUsed(next.totalTokens, maxTokens) THEN next
            ELSE InjectLoop(Tail(list), next, maxTokens, format)

\* the search results as the tool sees them: search order, search score
ToolResults(results) ==
    [i \in 1..Len(results) |->
        [id |-> i, score |-> results[i].relevance,
         tokenCount |-> results[i].tokenCount,
         summaryLen |-> results[i].summaryLen]]

\* the inject_context handler
injectContextTool(searchOk, results, maxTokens, format) ==
    IF ~searchOk
    THEN [outcome |-> "error", contexts |-> <<>>, totalTokens |-> 0,
          injectionStrategy |-> "none"]
    ELSE IF Len(results) = 0
    THEN [outcome |-> "returned", contexts |-> <<>>, totalTokens |-> 0,
          injectionStrategy |-> "none"]
    ELSE LET final == InjectLoop(ToolResults(results),
                                 [selected |-> <<>>, totalTokens |-> 0],
                                 maxTokens, format)
         IN [outcome |-> "returned", contexts |-> final.selected,
             totalTokens |-> final.totalTokens, injectionStrategy |-> "none"]

\* the inject_context tool called with any arguments
InjectContextTool ==
    /\ inj_call.op = "none"
    /\ \E searchOk \in BOOLEAN, results \in SeqsUpTo(SearchResults, MaxResults),
       maxTokens \in MaxTokensChoices, format \in Formats :
        inj_call' = [op |-> "inject_context", searchOk |-> searchOk,
                     results |-> results, maxTokens |-> maxTokens, format |-> format,
                     out |-> injectContextTool(searchOk, results, maxTokens, format)]
    /\ UNCHANGED <<srchVars, extVars, storeVars, embVars, kgVars, chunkVars, detVars>>

(***************************************************************************)
(* Prioritisation and selection at two moments                             *)
(***************************************************************************)

\* Bound: the number of search results given to both invocations
MaxReplayed == 2

\* days, counted from a common origin: the timestamps of contexts and the
\* moments of the invocations (new Date().getTime())
CreationDays == {0, 60}
Moments == {60, 150}

\* recencyScore = Math.exp(-daysSinceCreation / 30), in percent, rounded, for
\* ages that are multiples of 30 days
recencyScore(daysSinceCreation) ==
    CASE daysSinceCreation <= 0 -> 100
      [] daysSinceCreation = 30 -> 37
      [] daysSinceCreation = 60 -> 14
      [] daysSinceCreation = 90 -> 5
      [] daysSinceCreation = 120 -> 2
      [] OTHER -> 1

\* search results with the timestamp of their context
StampedResults ==
    { [relevance |-> rel, importance |-> 50, ctype |-> "discussion",
       tokenCount |-> 30, summaryLen |-> 0, createdDay |-> day] :
        rel \in {60, 62}, day \in CreationDays }

\* the results as prioritizeContexts sees them when it reads the clock at now
AtMoment(results, now) ==
    [i \in 1..Len(results) |->
        [relevance |-> results[i].relevance,
         recency |-> recencyScore(now - results[i].createdDay),
         importance |-> results[i].importance, ctype |-> results[i].ctype,
         tokenCount |-> results[i].tokenCount,
         summaryLen |-> results[i].summaryLen]]

\* prioritizeContexts, then selectContextsWithinBudget, run at the moment now
prioritizeAndSelect(results, now, maxTokens, format) ==
    selectContextsWithinBudget(prioritizeContexts(AtMoment(results, now)),
                               maxTokens, format)

\* the same results, weights, maxTokens and format prioritised and selected at
\* two moments
SelectTwice ==
    /\ inj_call.op = "none"
    /\ \E results \in UNION {[1..k -> StampedResults] : k \in 1..MaxReplayed},
          first \in Moments, second \in Moments,
          maxTokens \in MaxTokensChoices, format \in Formats :
        inj_call' = [op |-> "selectTwice", searchOk |-> TRUE, results |-> results,
                     maxTokens |-> maxTokens, format |-> format,
                     first |-> first, second |-> second,
                     out |-> prioritizeAndSelect(results, first, maxTokens, format),
                     again |-> prioritizeAndSelect(results, second, maxTokens, format)]
    /\ UNCHANGED <<srchVars, extVars, storeVars, embVars, kgVars, chunkVars, detVars>>

\* tokens already selected when a candidate is tried
CurrentTokens == {0, 50}

\* one call of tryAddContext on one candidate
TryAddContext ==
    /\ inj_call.op = "none"
    /\ \E r \in SearchResults, currentTokens \in CurrentTokens,
          maxTokens \in MaxTokensChoices, format \in Formats :
        inj_call' = [op |-> "tryAddContext", searchOk |-> TRUE, results |-> <<r>>,
                     maxTokens |-> maxTokens, format |-> format,
                     currentTokens |-> currentTokens,
                     out |-> tryAddContext(prioritizeContexts(<<r>>)[1], <<>>,
                                           currentTokens, maxTokens, format)]
    /\ UNCHANGED <<srchVars, extVars, storeVars, embVars, kgVars, chunkVars, detVars>>

InjNext ==
    PrepareContextForInjection \/ InjectContextTool \/ SelectTwice \/ TryAddContext

(***************************************************************************)
(* Hybrid search engine (src/unnamed/part_001, SemanticSearch)             *)
(***************************************************************************)

\* Bound: the largest limit a search call is given
MaxLimit == 2

StopWords ==
    {"the", "is", "at", "which", "on", "and", "a", "an", "as",
     "are", "was", "were", "in", "to", "for", "of", "with", "by"}

\* word.length of the words the queries are made of
WordLength(w) ==
    CASE w = "db" -> 2
      [] w = "the" -> 3
      [] w = "auth" -> 4
      [] w = "bug" -> 3
      [] w = "cache" -> 5

\* extractKeywords of SemanticSearch: words longer than 2 that are no stop words
searchKeywords(query) ==
    LET IsKeyword(w) == WordLength(w) > 2 /\ w \notin StopWords
    IN SelectSeq(query.words, IsKeyword)

\* The stored Context nodes a search can run over. words: the words of the
\* content; topic: what the stored embedding is about.
StoredContexts ==
    { [id |-> 1, words |-> {"auth", "bug"}, ctype |-> "error", projectId |-> "p1",
       importanceScore |-> 90, timestamp |-> 3, topic |-> "t1"],
      [id |-> 2, words |-> {"auth"}, ctype |-> "code", projectId |-> "p1",
       importanceScore |-> 70, timestamp |-> 2, topic |-> "t1"],
      [id |-> 3, words |-> {"cache"}, ctype |-> "discussion", projectId |-> "p2",
       importanceScore |-> 50, timestamp |-> 1, topic |-> "t2"] }

\* The queries: the words typed and what the query's embedding is about
Queries ==
    { [words |-> <<"the", "auth", "bug">>, topic |-> "t1"],
      [words |-> <<"cache", "db">>, topic |-> "t2"],
      [words |-> <<"the">>, topic |-> "t3"] }

NoFilter == "none"
TypeFilters == {NoFilter, "error"}
ProjectFilters == {NoFilter, "p1"}

\* AND node.contextType IN $contextTypes / AND node.projectId = $projectId
PassesFilters(node, ctypeFilter, projectId) ==
    /\ ctypeFilter = NoFilter \/ node.ctype = ctypeFilter
    /\ projectId = NoFilter \/ node.projectId = projectId

\* size([keyword IN $keywords WHERE node.content =~ '(?i).*' + keyword + '.*'])
MatchCount(node, keywords) ==
    Cardinality({i \in 1..Len(keywords) : keywords[i] \in node.words})

\* node.content =~ '(?i).*(' + $searchPattern + ').*': an empty pattern matches all
MatchesPattern(node, keywords) ==
    Len(keywords) = 0 \/ MatchCount(node, keywords) > 0

\* ORDER BY matchCount DESC, node.importanceScore DESC, node.timestamp DESC
KeywordBefore(a, b, keywords) ==
    \/ MatchCount(a, keywords) > MatchCount(b, keywords)
    \/ /\ MatchCount(a, keywords) = MatchCount(b, keywords)
       /\ \/ a.importanceScore > b.importanceScore
          \/ a.importanceScore = b.importanceScore /\ a.timestamp > b.timestamp

\* the matching nodes in the keyword query's order, at most limit of them
RECURSIVE RankedKeyword(_, _, _)
RankedKeyword(nodes, keywords, limit) ==
    IF nodes = {} \/ limit = 0 THEN <<>>
    ELSE LET first == CHOOSE n \in nodes :
                          \A o \in nodes \ {n} : KeywordBefore(n, o, keywords)
         IN <<first>> \o RankedKeyword(nodes \ {first}, keywords, limit - 1)

\* toFloat(matchCount) / toFloat(size($keywords)), in percent
KeywordScore(node, keywords) ==
    IF Len(keywords) = 0 THEN 0 ELSE (100 * MatchCount(node, keywords)) \div Len(keywords)

\* the records of the keyword query
KeywordResults(store, query, ctypeFilter, limit, projectId) ==
    LET keywords == searchKeywords(query)
        hits == {n \in store : MatchesPattern(n, keywords)
                               /\ PassesFilters(n, ctypeFilter, projectId)}
        rows == RankedKeyword(hits, keywords, limit)
    IN [i \in 1..Len(rows) |-> [id |-> rows[i].id,
                                 score |-> KeywordScore(rows[i], keywords)]]

\* cosine similarity of a stored embedding and the query embedding, in percent
Similarity(node, query) == IF node.topic = query.topic THEN 90 ELSE 30

\* threshold: 0.7
SimilarityFloor == 70

\* ORDER BY score DESC (ties in node order)
VectorBefore(a, b, query) ==
    \/ Similarity(a, query) > Similarity(b, query)
    \/ Similarity(a, query) = Similarity(b, query) /\ a.id < b.id

\* the nodes nearest to the query embedding, at most limit of them
RECURSIVE RankedVector(_, _, _)
RankedVector(nodes, query, limit) ==
    IF nodes = {} \/ limit = 0 THEN <<>>
    ELSE LET first == CHOOSE n \in nodes :
                          \A o \in nodes \ {n} : VectorBefore(n, o, query)
         IN <<first>> \o RankedVector(nodes \ {first}, query, limit - 1)

\* the records of the vector-index query: the limit * 2 nearest nodes, the
\* similarity floor, the filters, the final limit
VectorResults(store, query, ctypeFilter, limit, projectId) ==
    LET nearest == RankedVector(store, query, limit * 2)
        Keep(n) == Similarity(n, query) >= SimilarityFloor
                   /\ PassesFilters(n, ctypeFilter, projectId)
        rows == SelectSeq(nearest, Keep)
        top == SubSeq(rows, 1, Min(limit, Len(rows)))
    IN [i \in 1..Len(top) |-> [id |-> top[i].id, score |-> Similarity(top[i], query)]]

\* What the backends do during one call: generateEmbedding resolves or rejects,
\* the vector index exists or not (checkVectorIndexExists turns an error into
\* false), the vector query resolves or rejects, and each keyword query the call
\* issues resolves or rejects.
Backends ==
    [embedOk : BOOLEAN, hasVectorIndex : BOOLEAN, vectorOk : BOOLEAN,
     keywordOk : [1..2 -> BOOLEAN]]

SearchReturned(path, results, keywordQueries) ==
    [outcome |-> "returned", path |-> path, results |-> results,
     keywordQueries |-> keywordQueries]

SearchRejected(keywordQueries) ==
    [outcome |-> "threw", path |-> "none", results |-> <<>>,
     keywordQueries |-> keywordQueries]

\* keywordSearch as the nth keyword query of the call
keywordSearch(store, query, ctypeFilter, limit, projectId, env, nth) ==
    IF env.keywordOk[nth]
    THEN SearchReturned("keyword",
                        KeywordResults(store, query, ctypeFilter, limit, projectId), nth)
    ELSE SearchRejected(nth)

\* the try block of semanticSearch
semanticTry(store, query, ctypeFilter, limit, projectId, env) ==
    IF ~env.embedOk THEN SearchRejected(0)
    ELSE IF ~env.hasVectorIndex
    THEN keywordSearch(store, query, ctypeFilter, limit, projectId, env, 1)
    ELSE IF ~env.vectorOk THEN SearchRejected(0)
    ELSE SearchReturned("vector",
                        VectorResults(store, query, ctypeFilter, limit, projectId), 0)

\* semanticSearch with the rejection of the try block passed on to the caller
semanticSearchNoCatch(store, query, ctypeFilter, limit, projectId, env) ==
    semanticTry(store, query, ctypeFilter, limit, projectId, env)

\* semanticSearch: the try block, and in the catch block one more keywordSearch
semanticSearch(store, query, ctypeFilter, limit, projectId, env) ==
    LET tried == semanticTry(store, query, ctypeFilter, limit, projectId, env)
    IN IF tried.outcome = "returned" THEN tried
       ELSE keywordSearch(store, query, ctypeFilter, limit, projectId, env,
                          tried.keywordQueries + 1)

searchContexts(store, query, ctypeFilter, limit, projectId, useSemanticSearch, env) ==
    IF useSemanticSearch
    THEN semanticSearch(store, query, ctypeFilter, limit, projectId, env)
    ELSE keywordSearch(store, query, ctypeFilter, limit, projectId, env, 1)

NoSearch ==
    [op |-> "none", store |-> {}, query |-> [words |-> <<>>, topic |-> "t3"],
     ctypeFilter |-> NoFilter, limit |-> 1, projectId |-> NoFilter,
     useSemanticSearch |-> TRUE,
     env |-> [embedOk |-> TRUE, hasVectorIndex |-> TRUE, vectorOk |-> TRUE,
              keywordOk |-> [i \in 1..2 |-> TRUE]],
     out |-> SearchRejected(0)]

SrchInit == srch_call = NoSearch

\* SemanticSearch.searchContexts called over any store, with any backend behaviour
SearchContexts ==
    /\ srch_call.op = "none"
    /\ \E store \in SUBSET StoredContexts, query \in Queries,
          ctypeFilter \in TypeFilters, limit \in 1..MaxLimit,
          projectId \in ProjectFilters, useSemanticSearch \in BOOLEAN,
          env \in Backends :
            srch_call' = [op |-> "searchContexts", store |-> store, query |-> query,
                          ctypeFilter |-> ctypeFilter, limit |-> limit,
                          projectId |-> projectId,
                          useSemanticSearch |-> useSemanticSearch, env |-> env,
                          out |-> searchContexts(store, query, ctypeFilter, limit,
                                                 projectId, useSemanticSearch, env)]
    /\ UNCHANGED <<injVars, extVars, storeVars, embVars, kgVars, chunkVars, detVars>>

\* The relationships stored between the contexts; similarity in percent
StoredLinks ==
    { [from |-> 2, to |-> 1, type |-> "EVOLVES_TO", similarity |-> 0],
      [from |-> 1, to |-> 3, type |-> "REFERENCES", similarity |-> 0],
      [from |-> 2, to |-> 3, type |-> "RELATED_TO", similarity |-> 75],
      [from |-> 3, to |-> 2, type |-> "IMPLEMENTS", similarity |-> 0] }

\* the ids callers ask about: the stored ones and one that is stored nowhere
ContextIds == {1, 2, 3, 4}

\* depth of getEvolutionChain
Depths == {1, 2}

\* MATCH (c:Context) RETURN c, a lookup that leaves the id out
getContextByIdOfAny(store, contextId) == store

\* getContextById: MATCH (c:Context {id: $contextId}) RETURN c; no node is null
getContextById(store, contextId) == {c \in store : c.id = contextId}

\* the score of a related context by the type of the relationship, in percent
RelatedScore(link) ==
    CASE link.type = "EVOLVES_TO" -> 90
      [] link.type = "REFERENCES" -> 80
      [] link.type = "RELATED_TO" -> link.similarity
      [] OTHER -> 70

\* MATCH (source {id}) OPTIONAL MATCH (source)-[r:RELATED_TO|REFERENCES|EVOLVES_TO]-(related)
\* WHERE related IS NOT NULL: one row per relationship of the source
RelatedRows(store, links, contextId) ==
    { [id |-> IF l.from = contextId THEN l.to ELSE l.from, score |-> RelatedScore(l)] :
        l \in {x \in links : /\ x.type \in {"RELATED_TO", "REFERENCES", "EVOLVES_TO"}
                             /\ contextId \in {x.from, x.to}
                             /\ getContextById(store, contextId) # {}} }

\* ORDER BY score DESC LIMIT $limit (ties in node order)
RECURSIVE RankedRows(_, _)
RankedRows(rows, limit) ==
    IF rows = {} \/ limit = 0 THEN <<>>
    ELSE LET first == CHOOSE r \in rows :
                          \A o \in rows \ {r} :
                              r.score > o.score \/ (r.score = o.score /\ r.id < o.id)
         IN <<first>> \o RankedRows(rows \ {first}, limit - 1)

\* findSimilarByEmbedding: the other nodes whose embedding is within the floor
\* of the given one; gds.similarity.cosine needs the library on the server
findSimilarByEmbedding(store, source, limit, excludeId, env) ==
    IF ~env.gdsOk THEN SearchRejected(0)
    ELSE LET near == {n \in store : n.id # excludeId
                                    /\ Similarity(n, source) >= SimilarityFloor}
             rows == RankedVector(near, source, limit)
         IN SearchReturned("embedding",
                           [i \in 1..Len(rows) |->
                               [id |-> rows[i].id, score |-> Similarity(rows[i], source)]],
                           0)

\* findRelatedContexts: the neighbours in the graph, and for a stored context
\* without neighbours the nearest by embedding
findRelatedContexts(store, links, contextId, limit, env) ==
    IF ~env.servicesOk THEN SearchRejected(0)
    ELSE LET rows == RankedRows(RelatedRows(store, links, contextId), limit)
             context == getContextById(store, contextId)
         IN IF rows = <<>> /\ context # {}
            THEN findSimilarByEmbedding(store, CHOOSE c \in context : TRUE, limit,
                                        contextId, env)
            ELSE SearchReturned("graph", rows, 0)

\* the nodes on the paths (start)-[:EVOLVES_TO*0..depth]-(end)
RECURSIVE OnEvolutionPaths(_, _, _)
OnEvolutionPaths(links, reached, depth) ==
    IF depth = 0 THEN reached
    ELSE OnEvolutionPaths(links,
            reached \cup {l.to : l \in {x \in links : x.type = "EVOLVES_TO"
                                                      /\ x.from \in reached}}
                    \cup {l.from : l \in {x \in links : x.type = "EVOLVES_TO"
                                                        /\ x.to \in reached}},
            depth - 1)

\* ORDER BY context.timestamp, collect(DISTINCT context)
RECURSIVE ByTimestamp(_)
ByTimestamp(nodes) ==
    IF nodes = {} THEN <<>>
    ELSE LET first == CHOOSE n \in nodes : \A o \in nodes : n.timestamp <= o.timestamp
         IN <<first.id>> \o ByTimestamp(nodes \ {first})

\* getEvolutionChain: the chain of the start node; without a record, the
\* context alone or nothing.  path is contextIds[0], the id of the start.
getEvolutionChain(store, links, contextId, depth, env) ==
    IF ~env.servicesOk THEN [outcome |-> "threw", contexts |-> <<>>, path |-> <<>>]
    ELSE IF getContextById(store, contextId) # {}
    THEN [outcome |-> "returned",
          contexts |-> ByTimestamp({n \in store :
                                      n.id \in OnEvolutionPaths(links, {contextId}, depth)}),
          path |-> <<contextId>>]
    ELSE LET singleContext == getContextById(store, contextId)
         IN [outcome |-> "returned",
             contexts |-> [i \in 1..Cardinality(singleContext) |-> contextId],
             path |-> [i \in 1..Cardinality(singleContext) |-> contextId]]

\* the stores and relationships a read runs over
LinksOf(store) ==
    {l \in StoredLinks : \E a \in store, b \in store : a.id = l.from /\ b.id = l.to}

\* SemanticSearch.findRelatedContexts called for any id over any graph
FindRelatedContexts ==
    /\ srch_call.op = "none"
    /\ \E store \in SUBSET StoredContexts, contextId \in ContextIds,
          limit \in 1..MaxLimit, env \in [servicesOk : BOOLEAN, gdsOk : BOOLEAN] :
       \E links \in SUBSET LinksOf(store) :
          srch_call' = [op |-> "findRelatedContexts", store |-> store, links |-> links,
                        contextId |-> contextId, limit |-> limit, env |-> env,
                        out |-> findRelatedContexts(store, links, contextId, limit, env)]
    /\ UNCHANGED <<injVars, extVars, storeVars, embVars, kgVars, chunkVars, detVars>>

\* SemanticSearch.getEvolutionChain called for any id over any graph
GetEvolutionChain ==
    /\ srch_call.op = "none"
    /\ \E store \in SUBSET StoredContexts, contextId \in ContextIds,
          depth \in Depths, env \in [servicesOk : BOOLEAN, gdsOk : BOOLEAN] :
       \E links \in SUBSET LinksOf(store) :
          srch_call' = [op |-> "getEvolutionChain", store |-> store, links |-> links,
                        contextId |-> contextId, depth |-> depth, env |-> env,
                        out |-> getEvolutionChain(store, links, contextId, depth, env)]
    /\ UNCHANGED <<injVars, extVars, storeVars, embVars, kgVars, chunkVars, detVars>>

SrchNext == SearchContexts \/ FindRelatedContexts \/ GetEvolutionChain

(***************************************************************************)
(* Extraction pipeline (src/unnamed/part_002, ContextExtractor)            *)
(*                                                                         *)
(* A transcript is modelled by the candidates its lexer and its regular    *)
(* expressions find in it, in the order they are found.  A candidate has   *)
(*   family   : the classifier that finds it                               *)
(*   text     : the identity of the captured text (equal text, equal id)   *)
(*   lead     : length of the trigger phrase and separator before the      *)
(*              captured group (0 for code blocks and paragraphs)          *)
(*   lines    : the lengths of the lines of the captured text              *)
(*   keywords : the importance keywords the text contains                  *)
(*   words    : the words longer than 3 letters the text contains          *)
(*   pos      : the offset of the text in the transcript                   *)
(*   signals  : the paragraph matches a code/decision/requirement/error    *)
(*              signal (discussion candidates only)                        *)
(*   wordCount: number of words (discussion candidates only)               *)
(***************************************************************************)

\* text.length of a text given by the lengths of its lines (joined by "\n")
TextLength(lines) == SumSeq(lines) + (Len(lines) - 1)

\* countTokens: the encoder of the tiktoken library is outside the repository;
\* the count is the one of the catch branch, Math.ceil(text.length / 4)
countTokens(length) == CeilDiv(length, 4)

\* the lines of match[0]: the lead is in front of the first line
FullMatchLines(c) == [i \in 1..Len(c.lines) |->
                        IF i = 1 THEN c.lead + c.lines[1] ELSE c.lines[i]]

\* a ContextNode as the classifiers create it
NewContext(c, ctype, importance, contentLines) ==
    [text |-> c.text, ctype |-> ctype, importanceScore |-> importance,
     lines |-> contentLines, tokenCount |-> countTokens(TextLength(contentLines)),
     keywords |-> c.keywords, words |-> c.words, pos |-> c.pos,
     isSummarized |-> FALSE, summaryLen |-> 0]

OfFamily(cands, family) ==
    LET Is(c) == c.family = family IN SelectSeq(cands, Is)

\* extractCodeBlocks: one item per fenced block whose trimmed text is not empty
extractCodeBlocks(cands) ==
    LET blocks == OfFamily(cands, "code")
        NonEmpty(c) == TextLength(c.lines) > 0
        kept == SelectSeq(blocks, NonEmpty)
    IN [i \in 1..Len(kept) |-> NewContext(kept[i], "code", 70, kept[i].lines)]

\* the match loop without its length test
RECURSIVE KeepCapturedUntested(_, _, _, _)
KeepCapturedUntested(matches, seen, ctype, importance) ==
    IF matches = <<>> THEN <<>>
    ELSE LET c == Head(matches)
         IN IF c.text \notin seen
            THEN <<NewContext(c, ctype, importance, FullMatchLines(c))>>
                 \o KeepCapturedUntested(Tail(matches), seen \cup {c.text},
                                         ctype, importance)
            ELSE KeepCapturedUntested(Tail(matches), seen, ctype, importance)

\* the loop of extractDecisions / extractRequirements: the captured group is
\* tested (longer than 20, shorter than 500, not seen before) and the whole
\* match is stored
RECURSIVE KeepCaptured(_, _, _, _)
KeepCaptured(matches, seen, ctype, importance) ==
    IF matches = <<>> THEN <<>>
    ELSE LET c == Head(matches)
             captured == TextLength(c.lines)
         IN IF captured > 20 /\ captured < 500 /\ c.text \notin seen
            THEN <<NewContext(c, ctype, importance, FullMatchLines(c))>>
                 \o KeepCaptured(Tail(matches), seen \cup {c.text}, ctype, importance)
            ELSE KeepCaptured(Tail(matches), seen, ctype, importance)

extractDecisions(cands) ==
    KeepCaptured(OfFamily(cands, "decision"), {}, "decision", 80)

extractRequirements(cands) ==
    KeepCaptured(OfFamily(cands, "requirement"), {}, "requirement", 85)

\* the loop of extractErrors: the whole match is tested (longer than 30, shorter
\* than 1000, not seen before) and stored
RECURSIVE KeepFullMatch(_, _)
KeepFullMatch(matches, seen) ==
    IF matches = <<>> THEN <<>>
    ELSE LET c == Head(matches)
             full == TextLength(FullMatchLines(c))
         IN IF full > 30 /\ full < 1000 /\ <<c.lead, c.text>> \notin seen
            THEN <<NewContext(c, "error", 90, FullMatchLines(c))>>
                 \o KeepFullMatch(Tail(matches), seen \cup {<<c.lead, c.text>>})
            ELSE KeepFullMatch(Tail(matches), seen)

extractErrors(cands) == KeepFullMatch(OfFamily(cands, "error"), {})

\* extractDiscussions: paragraphs of 100..1000 characters without a signal of
\* the other families and with more than 20 words
extractDiscussions(cands) ==
    LET paragraphs == OfFamily(cands, "discussion")
        Keep(c) == /\ TextLength(c.lines) >= 100
                   /\ TextLength(c.lines) <= 1000
                   /\ ~c.signals
                   /\ c.wordCount > 20
        kept == SelectSeq(paragraphs, Keep)
    IN [i \in 1..Len(kept) |-> NewContext(kept[i], "discussion", 50, kept[i].lines)]

\* keywordBoosts of scoreContext, in percent
KeywordBoost(k) ==
    CASE k = "critical" -> 10
      [] k = "important" -> 8
      [] k = "security" -> 10
      [] k = "performance" -> 7
      [] k = "architecture" -> 8
      [] k = "breaking change" -> 10
      [] k = "TODO" -> 6
      [] k = "FIXME" -> 8

RECURSIVE SumBoosts(_)
SumBoosts(ks) ==
    IF ks = {} THEN 0
    ELSE LET k == CHOOSE x \in ks : TRUE
         IN KeywordBoost(k) + SumBoosts(ks \ {k})

\* scoreContext without Math.min(score, 1.0)
scoreContextUnclamped(ctx) ==
    [ctx EXCEPT !.importanceScore =
        @ + (IF ctx.ctype = "error" THEN 10
             ELSE IF ctx.ctype = "requirement" THEN 5 ELSE 0)
          + (IF ctx.tokenCount > 100 THEN 5 ELSE 0)
          + (IF ctx.tokenCount > 500 THEN 5 ELSE 0)
          + SumBoosts(ctx.keywords)]

\* scoreContext, importance in percent
scoreContext(ctx) ==
    LET typeBonus == IF ctx.ctype = "error" THEN 10
                     ELSE IF ctx.ctype = "requirement" THEN 5 ELSE 0
        sizeBonus == (IF ctx.tokenCount > 100 THEN 5 ELSE 0)
                     + (IF ctx.tokenCount > 500 THEN 5 ELSE 0)
        score == ctx.importanceScore + typeBonus + sizeBonus + SumBoosts(ctx.keywords)
    IN [ctx EXCEPT !.importanceScore = Min(score, 100)]

\* the default of MAX_CONTEXT_TOKENS
maxContextTokens == 4000

\* number of characters of the decimal notation of an integer
RECURSIVE Digits(_)
Digits(n) == IF n < 0 THEN 1 + Digits(-n) ELSE IF n < 10 THEN 1 ELSE 1 + Digits(n \div 10)

\* length of lines.slice(0, 10).join('\n')
HeadLength(lines) == TextLength(SubSeq(lines, 1, Min(10, Len(lines))))

\* length of the summary text: the first ten lines and the marker
\* "\n\n... (N more lines, T total tokens)"
SummaryLength(lines, tokenCount) ==
    HeadLength(lines) + 7 + Digits(Len(lines) - 10) + 13 + Digits(tokenCount) + 14

\* summarizeIfNeeded
summarizeIfNeeded(ctx) ==
    IF ctx.tokenCount <= maxContextTokens THEN ctx
    ELSE [ctx EXCEPT !.summaryLen = SummaryLength(ctx.lines, ctx.tokenCount),
                     !.isSummarized = TRUE]

\* hasCommonKeywords: at least three common words
hasCommonKeywords(set1, set2) == Cardinality(set1 \cap set2) >= 3

\* areNearby: both texts found (indexOf is not -1), less than 1000 characters apart
areNearby(ctx1, ctx2) ==
    LET d == IF ctx1.pos >= ctx2.pos THEN ctx1.pos - ctx2.pos ELSE ctx2.pos - ctx1.pos
    IN ctx1.pos # -1 /\ ctx2.pos # -1 /\ d < 1000

\* extractKeywords: a text is the set of its lower-case words; the words longer
\* than three characters are kept
extractKeywords(text) == {word \in text : Len(word) > 3}

\* a similarity that divides by the size of the first set
calculateSimilarityOfFirst(words1, words2) ==
    <<Cardinality(words1 \cap words2), Cardinality(words1)>>

\* calculateSimilarity: the quotient intersection.size / union.size as the pair
\* <<numerator, denominator>>; <<0, 0>> is NaN
calculateSimilarity(words1, words2) ==
    <<Cardinality(words1 \cap words2), Cardinality(words1 \cup words2)>>

\* similarity > 0.7, false for NaN
SimilarityAbove70(words1, words2) ==
    LET similarity == calculateSimilarity(words1, words2)
    IN similarity[2] # 0 /\ 10 * similarity[1] > 7 * similarity[2]

\* the relationships detectRelationships pushes for the pair (i, j), i < j
PairRelationships(contexts, i, j) ==
    LET ctx1 == contexts[i]
        ctx2 == contexts[j]
    IN (IF ctx1.ctype = "requirement" /\ ctx2.ctype = "code"
           /\ hasCommonKeywords(ctx2.words, ctx1.words)
        THEN <<[fromId |-> ctx2.id, toId |-> ctx1.id, type |-> "IMPLEMENTS",
                 properties |-> {}]>>
        ELSE <<>>)
       \o (IF ctx1.ctype = "error" /\ ctx2.ctype = "code" /\ areNearby(ctx1, ctx2)
           THEN <<[fromId |-> ctx1.id, toId |-> ctx2.id, type |-> "REFERENCES",
                    properties |-> {}]>>
           ELSE <<>>)
       \o (IF ctx1.ctype = ctx2.ctype /\ SimilarityAbove70(ctx1.words, ctx2.words)
           THEN <<[fromId |-> ctx1.id, toId |-> ctx2.id, type |-> "RELATED_TO",
                    properties |-> {<<"similarity",
                                      calculateSimilarity(ctx1.words, ctx2.words)>>}]>>
           ELSE <<>>)

\* a loop that compares each item with the next one only
RECURSIVE RelationshipsOfNeighbours(_, _, _)
RelationshipsOfNeighbours(contexts, i, j) ==
    IF j > Len(contexts) THEN <<>>
    ELSE PairRelationships(contexts, i, j) \o RelationshipsOfNeighbours(contexts, j, j + 1)

\* detectRelationships: the double loop over i < j
RECURSIVE RelationshipsFrom(_, _, _)
RelationshipsFrom(contexts, i, j) ==
    IF i > Len(contexts) THEN <<>>
    ELSE IF j > Len(contexts) THEN RelationshipsFrom(contexts, i + 1, i + 2)
    ELSE PairRelationships(contexts, i, j) \o RelationshipsFrom(contexts, i, j + 1)

detectRelationships(contexts) == RelationshipsFrom(contexts, 1, 2)

\* generateContextId: `ctx_${Date.now()}_${random}`, the nth identifier handed
\* out is a new one
generateContextId(n) == n

\* an extracted item with its identifier, chat and project
WithId(ctx, id, chatId, projectId) ==
    [id |-> id, chatId |-> chatId, projectId |-> projectId,
     text |-> ctx.text, ctype |-> ctx.ctype, importanceScore |-> ctx.importanceScore,
     lines |-> ctx.lines, tokenCount |-> ctx.tokenCount, keywords |-> ctx.keywords,
     words |-> ctx.words, pos |-> ctx.pos, isSummarized |-> FALSE, summaryLen |-> 0]

\* the three fields of a ContextExtractionResult
ExtractionResult(summarized) ==
    [contexts |-> summarized,
     relationships |-> detectRelationships(summarized),
     totalTokens |-> SumSeq([i \in 1..Len(summarized) |-> summarized[i].tokenCount])]

\* extractFromChat: the five classifiers in the order of the code, an identifier
\* for each item, the scores, the summaries, the relationships and the token sum.
\* issued is the number of identifiers handed out before the call.  Each
\* intermediate list is bound as the element of a one-element set, so that it
\* is computed once.
extractFromChat(cands, chatId, projectId, issued) ==
    CHOOSE result \in
      {ExtractionResult(summarized) :
         summarized \in
           {[i \in 1..Len(contexts) |-> summarizeIfNeeded(scoreContext(contexts[i]))] :
              contexts \in
                {[i \in 1..Len(raw) |->
                     WithId(raw[i], generateContextId(issued + i), chatId, projectId)] :
                   raw \in {extractCodeBlocks(cands) \o extractDecisions(cands)
                            \o extractRequirements(cands) \o extractErrors(cands)
                            \o extractDiscussions(cands)}}}} : TRUE

(***************************************************************************)
(* Graph store and the tools that write to it                              *)
(* (src/src/tools/extraction-tools.ts, src/src/tools/management-tools.ts,  *)
(*  src/unnamed/part_007, src/src/neo4j/schema.cypher)                     *)
(*                                                                         *)
(* A behaviour is one authenticated session: the server that was started   *)
(* and the GitHub login of its props are fixed when the tools are          *)
(* registered.  Every node and every edge records the call that created it.*)
(***************************************************************************)

MaxCalls == 2
MaxCap == 2

Logins == {"coleam00", "vedantparmar12", "octocat"}
Servers == {"context", "memory"}

\* WRITE_USERS of checkUserPermissions
WRITE_USERS == {"coleam00"}

\* ALLOWED_USERNAMES of the legacy tools
ALLOWED_USERNAMES == {"vedantparmar12"}

checkUserPermissions(username, operation) ==
    CASE operation = "admin" -> username \in WRITE_USERS
      [] operation = "write" -> username \in WRITE_USERS
      [] operation = "read" -> TRUE
      [] OTHER -> FALSE

\* registerNeo4jTools: extraction, search, management and injection tools
registerNeo4jTools(login) ==
    {"extract_context", "extract_from_export",
     "search_context", "find_related", "get_evolution",
     "list_chats", "visualize_graph",
     "inject_context", "get_chat_context"}
    \cup (IF checkUserPermissions(login, "write") THEN {"manage_relationships"} ELSE {})

\* registerAllTools: knowledge-graph tools and legacy tools, whatever the login
registerAllTools(login) ==
    {"create_entities", "create_relations", "add_observations", "delete_entities",
     "delete_observations", "delete_relations", "read_graph", "search_nodes",
     "open_nodes", "listLabels", "executeCypher", "showSchema"}

RegisteredTools(session) ==
    CASE session.server = "context" -> registerNeo4jTools(session.login)
      [] session.server = "memory" -> registerAllTools(session.login)
      [] OTHER -> {}

\* a database on which the constraint chat_id_unique was never created
ChatIdNotEnforced == FALSE

\* uniqueness constraints of schema.cypher on Context.id and Chat.id
ContextIdUnique == TRUE
ChatIdUnique == TRUE

ChatIds == {1, 2}
NoChatId == 0
ProjectIds == {"p1"}

\* `chat_export_${Date.now()}`: the chat id of the nth call's import
ExportChatId(n) == 100 + n

Candidate(family, text, lead, lines, keywords, words, pos) ==
    [family |-> family, text |-> text, lead |-> lead, lines |-> lines,
     keywords |-> keywords, words |-> words, pos |-> pos,
     signals |-> FALSE, wordCount |-> 25]

\* an error report and a code block
TranscriptMixed ==
    << Candidate("error", "e1", 7, <<40>>, {}, {"connection", "timeout"}, 400),
       Candidate("code", "c1", 0, <<60, 60>>, {}, {"retry", "connect", "session"}, 100) >>

\* two similar decisions and a security requirement
TranscriptDecisions ==
    << Candidate("decision", "d1", 11, <<60>>, {},
                 {"neo4j", "graph", "store", "context"}, 0),
       Candidate("decision", "d2", 8, <<70>>, {},
                 {"neo4j", "graph", "store", "context"}, 200),
       Candidate("requirement", "r1", 5, <<50>>, {"security"},
                 {"tokens", "validate", "every"}, 400) >>

\* nothing the classifiers accept: a short decision and a short paragraph
TranscriptSmallTalk ==
    << Candidate("decision", "d0", 5, <<10>>, {}, {"okay"}, 0),
       Candidate("discussion", "p0", 0, <<50>>, {}, {"thanks"}, 30) >>

Transcripts == {TranscriptMixed, TranscriptDecisions, TranscriptSmallTalk}

RelationshipTypes ==
    {"REFERENCES", "EVOLVES_TO", "DEPENDS_ON", "RELATED_TO", "IMPLEMENTS", "BELONGS_TO"}

\* array.slice(0, n) and what it leaves out
Slice(s, n) == SubSeq(s, 1, Min(n, Len(s)))
Dropped(s, n) == SubSeq(s, Min(n, Len(s)) + 1, Len(s))

\* CREATE (c:Chat {...}); the statement fails on an existing id
CreateChat(G, chatId, projectId, userId, isImported, by) ==
    IF ChatIdUnique /\ \E c \in G.chats : c.id = chatId
    THEN [G EXCEPT !.ok = FALSE]
    ELSE [G EXCEPT !.chats = @ \cup {[nid |-> G.nid, id |-> chatId,
                                       projectId |-> projectId, userId |-> userId,
                                       isImported |-> isImported, tokenCount |-> 0,
                                       contextCount |-> 0, by |-> by]},
                   !.nid = @ + 1]

\* a Context node with the properties of an extracted item
ContextNodeOf(nid, item, by) ==
    [nid |-> nid, id |-> item.id, chatId |-> item.chatId,
     projectId |-> item.projectId, text |-> item.text, ctype |-> item.ctype,
     importanceScore |-> item.importanceScore, tokenCount |-> item.tokenCount,
     isSummarized |-> item.isSummarized, by |-> by]

\* CREATE (ctx:Context $properties); the statement fails on an existing id
CreateContext(G, item, by) ==
    IF ContextIdUnique /\ \E n \in G.ctx : n.id = item.id
    THEN [G EXCEPT !.ok = FALSE]
    ELSE [G EXCEPT !.ctx = @ \cup {ContextNodeOf(G.nid, item, by)}, !.nid = @ + 1]

\* MERGE (ctx:Context {id: $id}) SET ctx += $properties
MergeContext(G, item, by) ==
    IF \E n \in G.ctx : n.id = item.id
    THEN [G EXCEPT !.ctx = {IF n.id = item.id THEN ContextNodeOf(n.nid, item, n.by)
                            ELSE n : n \in @}]
    ELSE [G EXCEPT !.ctx = @ \cup {ContextNodeOf(G.nid, item, by)}, !.nid = @ + 1]

\* SET r += $properties on a set of <<key, value>> pairs
SetProperties(old, new) ==
    new \cup {p \in old : ~\E q \in new : q[1] = p[1]}

\* one edge per matched pair: CREATE always creates one, MERGE creates one when
\* the pair has none of the type; SET r += $properties on the bound edges
RECURSIVE LinkPairs(_, _, _, _, _, _)
LinkPairs(G, pairs, type, properties, by, merge) ==
    IF pairs = {} THEN G
    ELSE LET p == CHOOSE x \in pairs : TRUE
             Bound(e) == e.from = p[1] /\ e.to = p[2] /\ e.type = type
             G1 == IF merge /\ \E e \in G.edges : Bound(e)
                   THEN [G EXCEPT !.edges =
                           {IF Bound(e)
                            THEN [e EXCEPT !.props = SetProperties(@, properties)]
                            ELSE e : e \in @}]
                   ELSE [G EXCEPT !.edges = @ \cup {[eid |-> G.nid, from |-> p[1],
                                                     to |-> p[2], type |-> type,
                                                     props |-> properties,
                                                     by |-> by]},
                                  !.nid = @ + 1]
         IN LinkPairs(G1, pairs \ {p}, type, properties, by, merge)

\* the transaction without the statement that links a context to its chat
LinkToChatOmitted(G, contextId, chatId, by, merge) == G

\* MATCH (ctx:Context {id}), (c:Chat {id}) MERGE / CREATE (ctx)-[:BELONGS_TO]->(c)
LinkToChat(G, contextId, chatId, by, merge) ==
    LinkPairs(G, {<<n.nid, c.nid>> : n \in {x \in G.ctx : x.id = contextId},
                                      c \in {x \in G.chats : x.id = chatId}},
              "BELONGS_TO", {}, by, merge)

\* MATCH (from:Context {id}), (to:Context {id}) MERGE / CREATE (from)-[r:TYPE]->(to)
LinkContexts(G, fromId, toId, type, properties, by, merge) ==
    LinkPairs(G, {<<n.nid, m.nid>> : n \in {x \in G.ctx : x.id = fromId},
                                      m \in {x \in G.ctx : x.id = toId}},
              type, properties, by, merge)

\* one pass of the loop over the contexts: the node, then its BELONGS_TO edge
StoreContext(G, context, chatId, by, merge) ==
    CHOOSE G2 \in
      {IF G1.ok THEN LinkToChat(G1, context.id, chatId, by, merge) ELSE G1 :
         G1 \in {IF merge THEN MergeContext(G, context, by)
                 ELSE CreateContext(G, context, by)}} : TRUE

\* the loop over the contexts of a transaction; a failed statement ends it
RECURSIVE StoreContexts(_, _, _, _, _)
StoreContexts(G, contexts, chatId, by, merge) ==
    IF contexts = <<>> \/ ~G.ok THEN G
    ELSE CHOOSE G2 \in
           {StoreContexts(G1, Tail(contexts), chatId, by, merge) :
              G1 \in {StoreContext(G, Head(contexts), chatId, by, merge)}} : TRUE

\* the loop over the relationships of a transaction
RECURSIVE StoreRelationships(_, _, _)
StoreRelationships(G, relationships, by) ==
    IF relationships = <<>> \/ ~G.ok THEN G
    ELSE CHOOSE G2 \in
           {StoreRelationships(G1, Tail(relationships), by) :
              G1 \in {LinkContexts(G, Head(relationships).fromId,
                                   Head(relationships).toId,
                                   Head(relationships).type,
                                   Head(relationships).properties, by, TRUE)}} : TRUE

RECURSIVE SumTokenCount(_, _)
SumTokenCount(G, rows) ==
    IF rows = {} THEN 0
    ELSE LET e == CHOOSE x \in rows : TRUE
             n == CHOOSE x \in G.ctx : x.nid = e.from
         IN n.tokenCount + SumTokenCount(G, rows \ {e})

\* MATCH (c:Chat {id}) MATCH (ctx:Context)-[:BELONGS_TO]->(c)
\* WITH c, count(ctx), sum(ctx.tokenCount) SET c.contextCount, c.tokenCount
UpdateChatCounts(G, chatId) ==
    LET Rows(c) == {e \in G.edges : e.type = "BELONGS_TO" /\ e.to = c.nid}
    IN [G EXCEPT !.chats =
          {IF c.id = chatId /\ Rows(c) # {}
           THEN [c EXCEPT !.contextCount = Cardinality(Rows(c)),
                          !.tokenCount = SumTokenCount(G, Rows(c))]
           ELSE c : c \in @}]

\* the graph as the session finds it
Graph == [chats |-> g_chats, ctx |-> g_ctx, edges |-> g_edges, nid |-> g_nid,
          ok |-> TRUE]

SameGraph(G, H) == G.chats = H.chats /\ G.ctx = H.ctx /\ G.edges = H.edges

\* the write transaction of extract_context: the chat when it is missing, the
\* contexts, the relationships, the counters of the chat
extractContextTx(G, login, contexts, relationships, chatId, projectId, by) ==
    CHOOSE G4 \in
      {UpdateChatCounts(G3, chatId) :
         G3 \in {StoreRelationships(G2, relationships, by) :
           G2 \in {StoreContexts(G1, contexts, chatId, by, TRUE) :
             G1 \in {IF \E c \in G.chats : c.id = chatId THEN G
                     ELSE CreateChat(G, chatId, projectId, login, FALSE, by)}}}} : TRUE

\* the write transaction of extract_from_export: the chat, the contexts, the
\* relationships
extractFromExportTx(G, login, contexts, relationships, chatId, projectId, by) ==
    CHOOSE G3 \in
      {StoreRelationships(G2, relationships, by) :
         G2 \in {StoreContexts(G1, contexts, chatId, by, FALSE) :
           G1 \in {CreateChat(G, chatId, projectId, login, TRUE, by)}}} : TRUE

\* manage_relationships without the test of result.records.length
manage_relationshipsUntested(G, fromId, toId, type, action, properties, servicesOk, by) ==
    [graph |-> IF servicesOk /\ action = "create"
               THEN LinkContexts(G, fromId, toId, type, properties, by, FALSE)
               ELSE G,
     ok |-> servicesOk]

\* the handler of manage_relationships
manage_relationships(G, fromId, toId, type, action, properties, servicesOk, by) ==
    LET from == {n \in G.ctx : n.id = fromId}
        to == {n \in G.ctx : n.id = toId}
        Bound(e) == /\ e.type = type
                    /\ \E n \in from : e.from = n.nid
                    /\ \E n \in to : e.to = n.nid
        found == IF action = "create" THEN from # {} /\ to # {}
                 ELSE \E e \in G.edges : Bound(e)
        G1 == CASE action = "create" ->
                     LinkContexts(G, fromId, toId, type, properties, by, FALSE)
                [] action = "update" ->
                     [G EXCEPT !.edges =
                        {IF Bound(e)
                         THEN [e EXCEPT !.props = SetProperties(@, properties)]
                         ELSE e : e \in @}]
                [] action = "delete" ->
                     [G EXCEPT !.edges = {e \in @ : ~Bound(e)}]
    IN [graph |-> IF servicesOk THEN G1 ELSE G,
        ok |-> servicesOk /\ found]

\* the Cypher statements a caller of executeCypher sends
Statements == {"MATCH (n) RETURN count(n)", "CREATE (n:Note)",
               "MATCH (c:Context) DETACH DELETE c"}

\* session.run(cypher) of executeCypher
executeCypher(G, notes, cypher, servicesOk) ==
    IF ~servicesOk THEN [graph |-> G, notes |-> notes, ok |-> FALSE]
    ELSE CASE cypher = "MATCH (n) RETURN count(n)" ->
                [graph |-> G, notes |-> notes, ok |-> TRUE]
           [] cypher = "CREATE (n:Note)" ->
                [graph |-> [G EXCEPT !.nid = @ + 1], notes |-> notes + 1, ok |-> TRUE]
           [] cypher = "MATCH (c:Context) DETACH DELETE c" ->
                [graph |-> [G EXCEPT !.ctx = {},
                                     !.edges = {e \in @ :
                                        \A n \in G.ctx : e.from # n.nid /\ e.to # n.nid}],
                 notes |-> notes, ok |-> TRUE]

NoToolCall ==
    [tool |-> "none", ok |-> FALSE, modified |-> FALSE, args |-> <<>>,
     kept |-> <<>>, dropped |-> <<>>, relationships |-> <<>>,
     extracted |-> 0, totalTokens |-> 0]

\* before init() of the agent has run
NoSession == [server |-> "none", login |-> "none"]

StoreInit ==
    /\ g_session = NoSession
    /\ g_chats = {}
    /\ g_ctx = {}
    /\ g_edges = {}
    /\ g_notes = 0
    /\ g_nid = 1
    /\ g_issued = 0
    /\ g_calls = 0
    /\ g_last = NoToolCall
    /\ g_done = {}

\* init() of the agent: the user has authenticated, the tools are registered
\* for the login of the props
RegisterTools ==
    /\ g_session = NoSession
    /\ g_session' \in [server : Servers, login : Logins]
    /\ UNCHANGED <<g_chats, g_ctx, g_edges, g_notes, g_nid, g_issued, g_calls,
                   g_last, g_done, injVars, srchVars, extVars, embVars, kgVars, chunkVars, detVars>>

\* an extract_context call of the session: extraction, the cap, one write
\* transaction; a failing service or statement leaves the graph as it was and
\* the response is the error response
ExtractContext ==
    /\ g_calls < MaxCalls
    /\ "extract_context" \in RegisteredTools(g_session)
    /\ \E content \in Transcripts, chatId \in ChatIds, projectId \in ProjectIds,
          maxContexts \in 1..MaxCap, servicesOk \in BOOLEAN :
       \E extractionResult \in {extractFromChat(content, chatId, projectId, g_issued)} :
       \E contexts \in {Slice(extractionResult.contexts, maxContexts)} :
       \E G4 \in {extractContextTx(Graph, g_session.login, contexts,
                                   extractionResult.relationships, chatId,
                                   projectId, g_calls + 1)} :
          LET committed == servicesOk /\ G4.ok
              args == [content |-> content, chatId |-> chatId,
                       projectId |-> projectId, maxContexts |-> maxContexts]
          IN /\ g_chats' = IF committed THEN G4.chats ELSE g_chats
             /\ g_ctx' = IF committed THEN G4.ctx ELSE g_ctx
             /\ g_edges' = IF committed THEN G4.edges ELSE g_edges
             /\ g_nid' = IF committed THEN G4.nid ELSE g_nid
             /\ g_issued' = g_issued + Len(extractionResult.contexts)
             /\ g_last' = [tool |-> "extract_context", ok |-> committed,
                           modified |-> committed /\ ~SameGraph(G4, Graph),
                           args |-> args,
                           kept |-> contexts,
                           dropped |-> Dropped(extractionResult.contexts, maxContexts),
                           relationships |-> extractionResult.relationships,
                           extracted |-> IF committed THEN Len(contexts) ELSE 0,
                           totalTokens |-> IF committed
                                           THEN extractionResult.totalTokens ELSE 0]
             /\ g_done' = IF committed THEN g_done \cup {args} ELSE g_done
    /\ g_calls' = g_calls + 1
    /\ UNCHANGED <<g_session, g_notes, injVars, srchVars, extVars, embVars, kgVars, chunkVars, detVars>>

\* an extract_from_export call that is rejected for its format
ExportRejected(export, projectId) ==
    /\ g_last' = [NoToolCall EXCEPT !.tool = "extract_from_export",
                                    !.args = [export |-> export,
                                              projectId |-> projectId]]
    /\ UNCHANGED <<g_chats, g_ctx, g_edges, g_nid, g_issued>>

\* an extract_from_export call of the session: the export must hold a messages
\* array, the chat id is the export's or a new one, every item is kept
ExtractFromExport ==
    /\ g_calls < MaxCalls
    /\ "extract_from_export" \in RegisteredTools(g_session)
    /\ \E content \in Transcripts, id \in ChatIds \cup {NoChatId},
          hasMessages \in BOOLEAN, projectId \in ProjectIds, servicesOk \in BOOLEAN :
       \E export \in {[id |-> id, hasMessages |-> hasMessages, content |-> content]} :
       IF ~export.hasMessages THEN ExportRejected(export, projectId)
       ELSE
       \E chatId \in {IF export.id # NoChatId THEN export.id
                      ELSE ExportChatId(g_calls + 1)} :
       \E extractionResult \in {extractFromChat(export.content, chatId, projectId,
                                                g_issued)} :
       \E G3 \in {extractFromExportTx(Graph, g_session.login,
                                      extractionResult.contexts,
                                      extractionResult.relationships, chatId,
                                      projectId, g_calls + 1)} :
          LET committed == servicesOk /\ G3.ok
          IN /\ g_chats' = IF committed THEN G3.chats ELSE g_chats
             /\ g_ctx' = IF committed THEN G3.ctx ELSE g_ctx
             /\ g_edges' = IF committed THEN G3.edges ELSE g_edges
             /\ g_nid' = IF committed THEN G3.nid ELSE g_nid
             /\ g_issued' = g_issued + Len(extractionResult.contexts)
             /\ g_last' = [tool |-> "extract_from_export", ok |-> committed,
                           modified |-> committed /\ ~SameGraph(G3, Graph),
                           args |-> [export |-> export, projectId |-> projectId],
                           kept |-> extractionResult.contexts,
                           dropped |-> <<>>,
                           relationships |-> extractionResult.relationships,
                           extracted |-> IF committed
                                         THEN Len(extractionResult.contexts) ELSE 0,
                           totalTokens |-> IF committed
                                           THEN extractionResult.totalTokens ELSE 0]
    /\ g_calls' = g_calls + 1
    /\ UNCHANGED <<g_session, g_notes, g_done, injVars, srchVars, extVars, embVars, kgVars, chunkVars, detVars>>

\* the ids and properties a caller of manage_relationships names
RelationshipIds == 0..2
RelationshipProperties == {{}, {<<"weight", <<1, 2>>>>}}

\* a manage_relationships call of the session
ManageRelationships ==
    /\ g_calls < MaxCalls
    /\ "manage_relationships" \in RegisteredTools(g_session)
    /\ \E fromId \in RelationshipIds, toId \in RelationshipIds,
          type \in {"DEPENDS_ON", "RELATED_TO"},
          action \in {"create", "update", "delete"},
          properties \in RelationshipProperties, servicesOk \in BOOLEAN :
          \E r \in {manage_relationships(Graph, fromId, toId, type, action,
                                        properties, servicesOk, g_calls + 1)} :
             /\ g_edges' = r.graph.edges
             /\ g_nid' = r.graph.nid
             /\ g_last' = [NoToolCall EXCEPT
                             !.tool = "manage_relationships", !.ok = r.ok,
                             !.modified = ~SameGraph(r.graph, Graph),
                             !.args = [fromId |-> fromId, toId |-> toId,
                                       type |-> type, action |-> action,
                                       properties |-> properties]]
    /\ g_calls' = g_calls + 1
    /\ UNCHANGED <<g_session, g_chats, g_ctx, g_notes, g_issued, g_done,
                   injVars, srchVars, extVars, embVars, kgVars, chunkVars, detVars>>

\* an executeCypher call of the session
ExecuteCypher ==
    /\ g_calls < MaxCalls
    /\ "executeCypher" \in RegisteredTools(g_session)
    /\ \E cypher \in Statements, servicesOk \in BOOLEAN :
          \E r \in {executeCypher(Graph, g_notes, cypher, servicesOk)} :
             /\ g_ctx' = r.graph.ctx
             /\ g_edges' = r.graph.edges
             /\ g_nid' = r.graph.nid
             /\ g_notes' = r.notes
             /\ g_last' = [NoToolCall EXCEPT
                             !.tool = "executeCypher", !.ok = r.ok,
                             !.modified = \/ ~SameGraph(r.graph, Graph)
                                          \/ r.notes # g_notes,
                             !.args = [cypher |-> cypher]]
    /\ g_calls' = g_calls + 1
    /\ UNCHANGED <<g_session, g_chats, g_issued, g_done,
                   injVars, srchVars, extVars, embVars, kgVars, chunkVars, detVars>>

\* the extraction tools alone
StoreNext == RegisterTools \/ ExtractContext \/ ExtractFromExport

\* every tool that writes to the graph
ToolsNext ==
    \/ RegisterTools
    \/ ExtractContext
    \/ ExtractFromExport
    \/ ManageRelationships
    \/ ExecuteCypher

(***************************************************************************)
(* Calls of single ContextExtractor functions                              *)
(***************************************************************************)

MaxLines == 11
MaxMatches == 2

\* line lengths of an item's content: an empty line and a line of 20000 characters
LineLengths == {0, 20000}

\* the contents summarizeIfNeeded is given, as the lengths of their lines
Contents == UNION {[1..k -> LineLengths] : k \in 1..MaxLines}

\* lengths of a trigger phrase with its separator ("We'll ", "decided to ")
LeadLengths == {6, 11}

\* lengths of the text a pattern captures after the trigger phrase
CapturedLengths == {19, 21, 24, 499, 501, 989, 994}

\* the matches of the patterns of one family; the text of a match is
\* identified by its length and a variant
Matches(family) ==
    {Candidate(family, <<length, variant>>, lead, <<length>>, {}, {}, 0) :
        lead \in LeadLengths, length \in CapturedLengths, variant \in 1..2}

MatchLists(family) == UNION {[1..k -> Matches(family)] : k \in 1..MaxMatches}

NoExtractorCall == [op |-> "none", input |-> <<>>, out |-> <<>>]

ExtInit == ext_call = NoExtractorCall

\* summarizeIfNeeded on an item of the given content
SummarizeIfNeeded ==
    /\ ext_call.op = "none"
    /\ \E lines \in Contents :
       \E item \in {NewContext(Candidate("code", lines, 0, lines, {}, {}, 0),
                               "code", 70, lines)} :
          ext_call' = [op |-> "summarizeIfNeeded", input |-> item,
                       out |-> summarizeIfNeeded(item)]
    /\ UNCHANGED <<injVars, srchVars, storeVars, embVars, kgVars, chunkVars, detVars>>

ExtractDecisions ==
    /\ ext_call.op = "none"
    /\ \E cands \in MatchLists("decision") :
          ext_call' = [op |-> "extractDecisions", input |-> cands,
                       out |-> extractDecisions(cands)]
    /\ UNCHANGED <<injVars, srchVars, storeVars, embVars, kgVars, chunkVars, detVars>>

ExtractRequirements ==
    /\ ext_call.op = "none"
    /\ \E cands \in MatchLists("requirement") :
          ext_call' = [op |-> "extractRequirements", input |-> cands,
                       out |-> extractRequirements(cands)]
    /\ UNCHANGED <<injVars, srchVars, storeVars, embVars, kgVars, chunkVars, detVars>>

ExtractErrors ==
    /\ ext_call.op = "none"
    /\ \E cands \in MatchLists("error") :
          ext_call' = [op |-> "extractErrors", input |-> cands,
                       out |-> extractErrors(cands)]
    /\ UNCHANGED <<injVars, srchVars, storeVars, embVars, kgVars, chunkVars, detVars>>

\* the keywords of keywordBoosts
ImportanceKeywords ==
    {"critical", "important", "security", "performance", "architecture",
     "breaking change", "TODO", "FIXME"}

\* the importanceScore each classifier gives its items, in percent
BaseImportance(ctype) ==
    CASE ctype = "code" -> 70
      [] ctype = "decision" -> 80
      [] ctype = "requirement" -> 85
      [] ctype = "error" -> 90
      [] ctype = "discussion" -> 50

\* content lengths of 10, 100, 101, 500 and 501 tokens
ScoredLengths == {40, 400, 404, 2000, 2004}

\* scoreContext on an item of a type, a size and a set of matched keywords
ScoreContext ==
    /\ ext_call.op = "none"
    /\ \E ctype \in ContextTypes, length \in ScoredLengths,
          keywords \in SUBSET ImportanceKeywords :
       \E item \in {NewContext(Candidate(ctype, <<length>>, 0, <<length>>, keywords, {}, 0),
                               ctype, BaseImportance(ctype), <<length>>)} :
          ext_call' = [op |-> "scoreContext", input |-> item,
                       out |-> scoreContext(item)]
    /\ UNCHANGED <<injVars, srchVars, storeVars, embVars, kgVars, chunkVars, detVars>>

\* the words texts are made of; a text is a set of them, the empty text included
Vocabulary == {"to", "retry", "session", "connect", "timeout"}

\* calculateSimilarity on two texts, in both orders, with the test of
\* detectRelationships on each result
CalculateSimilarity ==
    /\ ext_call.op = "none"
    /\ \E text1 \in SUBSET Vocabulary, text2 \in SUBSET Vocabulary :
       \E words1 \in {extractKeywords(text1)}, words2 \in {extractKeywords(text2)} :
          ext_call' = [op |-> "calculateSimilarity",
                       input |-> <<text1, text2>>,
                       out |-> [forward |-> calculateSimilarity(words1, words2),
                                backward |-> calculateSimilarity(words2, words1),
                                relatedForward |-> SimilarityAbove70(words1, words2),
                                relatedBackward |-> SimilarityAbove70(words2, words1)]]
    /\ UNCHANGED <<injVars, srchVars, storeVars, embVars, kgVars, chunkVars, detVars>>

\* Bound: the number of items of one detection run
MaxItems == 3

\* the texts of the items of a detection run
ItemTexts ==
    { {"to"}, {"timeout", "to"}, {"retry", "session", "connect", "to"},
      {"retry", "session", "connect", "timeout"} }

\* an item of a detection run: the ith of the run, of a type and a text
DetectedItem(i, ctype, text) ==
    [id |-> i, ctype |-> ctype, text |-> text, words |-> extractKeywords(text),
     pos |-> 100 * i]

\* detectRelationships on the items of one run
DetectRelationships ==
    /\ ext_call.op = "none"
    /\ \E n \in 0..MaxItems :
       \E ctypes \in [1..n -> {"code", "decision"}], texts \in [1..n -> ItemTexts] :
       \E contexts \in {[i \in 1..n |-> DetectedItem(i, ctypes[i], texts[i])]} :
          ext_call' = [op |-> "detectRelationships", input |-> contexts,
                       out |-> detectRelationships(contexts)]
    /\ UNCHANGED <<injVars, srchVars, storeVars, embVars, kgVars, chunkVars, detVars>>

ExtNext ==
    \/ SummarizeIfNeeded \/ ExtractDecisions \/ ExtractRequirements \/ ExtractErrors
    \/ ScoreContext \/ CalculateSimilarity \/ DetectRelationships

(***************************************************************************)
(* Embeddings service (src/src/embeddings/cloudflare-ai.ts)                *)
(*                                                                         *)
(* generateEmbedding is an async function: between two awaits a call runs  *)
(* alone, at an await other calls run.  Each call is a process whose       *)
(* position is the await it waits at.                                      *)
(***************************************************************************)

NumCalls == 2

Calls == 1..NumCalls

\* config.model
Model == "@cf/baai/bge-base-en-v1.5"

\* maxLength of truncateText
MaxInputLength == 8000

\* a text is its identity and its length; truncated tells a text that
\* truncateText has cut
Texts == {[id |-> "a", length |-> 120, truncated |-> FALSE],
          [id |-> "b", length |-> 9000, truncated |-> FALSE]}

\* truncateText: the head, "\n...\n" and the tail of a text that is too long
truncateText(text) ==
    IF text.length <= MaxInputLength THEN text
    ELSE [id |-> text.id, length |-> 2 * (MaxInputLength \div 2) + 5,
          truncated |-> TRUE]

\* a cache key that does not depend on the text
getCacheKeyOfModel(text) == <<"emb", Model>>

\* getCacheKey: `emb:${model}:${sha256(text)}`; the digest is taken as
\* injective, so the text stands for it
getCacheKey(text) == <<"emb", Model, text.id, text.length>>

CacheKeys == {getCacheKey(t) : t \in Texts}

NoText == [id |-> "none", length |-> 0, truncated |-> FALSE]

NoVector == [of |-> NoText, run |-> 0]

\* the vector the model returns in its nth run, for the input it was given
ModelOutput(input, n) == [of |-> input, run |-> n]

IdleCall == [pc |-> "idle", text |-> NoText, cacheKey |-> <<"none">>,
             ran |-> "no", outcome |-> "none", vector |-> NoVector]

EmbInit ==
    /\ emb_proc = [c \in Calls |-> IdleCall]
    /\ emb_cache = [k \in CacheKeys |-> NoVector]
    /\ emb_runs = 0

\* generateEmbedding(text) is called: the key is computed, cache.get is awaited
CallGenerateEmbedding(c) ==
    /\ emb_proc[c].pc = "idle"
    /\ \E text \in Texts :
          emb_proc' = [emb_proc EXCEPT ![c] = [@ EXCEPT !.pc = "get", !.text = text,
                                                       !.cacheKey = getCacheKey(text)]]
    /\ UNCHANGED <<emb_cache, emb_runs, injVars, srchVars, extVars, storeVars, kgVars, chunkVars, detVars>>

\* cache.get resolves: with the stored value, which is returned; with null (no
\* entry, or an entry not yet visible to this read); or it rejects, which is
\* caught.  Without a value the model run is awaited.
CacheGet(c) ==
    /\ emb_proc[c].pc = "get"
    /\ \E result \in {"value", "null", "rejected"} :
          IF result = "value" /\ emb_cache[emb_proc[c].cacheKey] # NoVector
          THEN emb_proc' = [emb_proc EXCEPT ![c] =
                               [@ EXCEPT !.pc = "done", !.outcome = "returned",
                                         !.vector = emb_cache[emb_proc[c].cacheKey]]]
          ELSE emb_proc' = [emb_proc EXCEPT ![c] = [@ EXCEPT !.pc = "run"]]
    /\ UNCHANGED <<emb_cache, emb_runs, injVars, srchVars, extVars, storeVars, kgVars, chunkVars, detVars>>

\* ai.run resolves with an embedding of the truncated text, and cache.put is
\* awaited; or it rejects or resolves with no array, and the call throws
RunModel(c) ==
    /\ emb_proc[c].pc = "run"
    /\ emb_runs' = emb_runs + 1
    /\ \E aiOk \in BOOLEAN :
          IF aiOk
          THEN emb_proc' = [emb_proc EXCEPT ![c] =
                               [@ EXCEPT !.pc = "put", !.ran = "ok",
                                         !.vector = ModelOutput(
                                                        truncateText(emb_proc[c].text),
                                                        emb_runs + 1)]]
          ELSE emb_proc' = [emb_proc EXCEPT ![c] =
                               [@ EXCEPT !.pc = "done", !.ran = "failed",
                                         !.outcome = "threw"]]
    /\ UNCHANGED <<emb_cache, injVars, srchVars, extVars, storeVars, kgVars, chunkVars, detVars>>

\* cache.put resolves and the entry of the key is the embedding, or it rejects,
\* which is caught; the embedding is returned
CachePut(c) ==
    /\ emb_proc[c].pc = "put"
    /\ \E putOk \in BOOLEAN :
          emb_cache' = IF putOk
                       THEN [emb_cache EXCEPT ![emb_proc[c].cacheKey] = emb_proc[c].vector]
                       ELSE emb_cache
    /\ emb_proc' = [emb_proc EXCEPT ![c] = [@ EXCEPT !.pc = "done",
                                                     !.outcome = "returned"]]
    /\ UNCHANGED <<emb_runs, injVars, srchVars, extVars, storeVars, kgVars, chunkVars, detVars>>

EmbNext ==
    \E c \in Calls :
        \/ CallGenerateEmbedding(c)
        \/ CacheGet(c)
        \/ RunModel(c)
        \/ CachePut(c)

(***************************************************************************)
(* Text chunking (src/src/utils/local-embeddings.ts)                       *)
(*                                                                         *)
(* A text is its length; a chunk is the pair of the positions substring    *)
(* cuts it at, so that the chunk <<a, b>> holds the characters a+1..b.     *)
(***************************************************************************)

\* Bounds: length of a text, maxLength of a call
MaxTextLength == 6
MaxChunkLength == 3

\* a list that is returned has at most one chunk per character; of a list that
\* grows beyond that the first chunks are kept
MaxChunks == MaxTextLength

\* String.prototype.substring: both positions are clamped to the text and
\* swapped when the first is the larger
substring(length, start, end) ==
    LET a == Min(IF start < 0 THEN 0 ELSE start, length)
        b == Min(IF end < 0 THEN 0 ELSE end, length)
    IN IF a <= b THEN <<a, b>> ELSE <<b, a>>

\* passes is the number of passes of the loop so far, modulo 2
NoChunking == [pc |-> "idle", length |-> 0, maxLength |-> 1, overlap |-> 0,
               start |-> 0, chunks |-> <<>>, passes |-> 0]

ChunkInit == chunk_call = NoChunking

\* chunkText(text, maxLength, overlap) is called: a text within maxLength is
\* returned as the only chunk, otherwise the loop starts at 0
ChunkText ==
    /\ chunk_call.pc = "idle"
    /\ \E length \in 0..MaxTextLength, maxLength \in 1..MaxChunkLength :
       \E overlap \in 0..maxLength :
          chunk_call' = IF length <= maxLength
                        THEN [pc |-> "done", length |-> length, maxLength |-> maxLength,
                              overlap |-> overlap, start |-> 0,
                              chunks |-> << <<0, length>> >>, passes |-> 0]
                        ELSE [pc |-> "loop", length |-> length, maxLength |-> maxLength,
                              overlap |-> overlap, start |-> 0, chunks |-> <<>>,
                              passes |-> 0]
    /\ UNCHANGED <<injVars, srchVars, extVars, storeVars, embVars, kgVars, detVars>>

\* one pass of while (start < text.length): push the chunk, advance start
ChunkTextPass ==
    /\ chunk_call.pc = "loop"
    /\ chunk_call.start < chunk_call.length
    /\ \E end \in {Min(chunk_call.start + chunk_call.maxLength, chunk_call.length)} :
          chunk_call' = [chunk_call EXCEPT
                            !.chunks = IF Len(@) < MaxChunks
                                       THEN Append(@, substring(chunk_call.length,
                                                                chunk_call.start, end))
                                       ELSE @,
                            !.start = @ + chunk_call.maxLength - chunk_call.overlap,
                            !.passes = (@ + 1) % 2]
    /\ UNCHANGED <<injVars, srchVars, extVars, storeVars, embVars, kgVars, detVars>>

\* the loop condition fails: return chunks
ChunkTextReturn ==
    /\ chunk_call.pc = "loop"
    /\ chunk_call.start >= chunk_call.length
    /\ chunk_call' = [chunk_call EXCEPT !.pc = "done"]
    /\ UNCHANGED <<injVars, srchVars, extVars, storeVars, embVars, kgVars, detVars>>

ChunkNext == ChunkText \/ ChunkTextPass \/ ChunkTextReturn


(***************************************************************************)
(* Knowledge-graph storage and tools (src/src/knowledge-graph/storage.ts,  *)
(* src/src/tools/knowledge-graph-tools.ts)                                 *)
(*                                                                         *)
(* The graph is the set of its Entity nodes, each with the internal id of  *)
(* the database, so that two nodes of one name are two nodes.  A call is   *)
(* one step; at most one statement of a call throws, and the loop catches  *)
(* it and goes on.                                                         *)
(***************************************************************************)

\* Bounds: entities or observation sets per call, observations per entity
MaxEntities == 2
MaxObservations == 2

EntityNames == {"a", "b"}

\* the entities a caller sends
EntityInputs ==
    { [name |-> n, entityType |-> "person", observations |-> <<"o1">>] : n \in EntityNames }
    \cup { [name |-> "a", entityType |-> "organization", observations |-> <<"o2">>] }

\* the observation sets a caller sends
ObservationInputs == { [entityName |-> n, contents |-> <<"o3">>] : n \in EntityNames }

\* a MATCH that finds no node, whatever the graph holds
MatchEntityNone(E, name) == {}

\* MATCH (e:Entity {name: $name})
MatchEntity(E, name) == {e \in E : e.name = name}

\* CREATE (e:Entity {name, entityType, observations})
CreateEntity(E, entity) ==
    E \cup {[nid |-> Cardinality(E) + 1, name |-> entity.name,
             entityType |-> entity.entityType, observations |-> entity.observations]}

\* the loop of createEntities from the ith entity on; the statements of entity
\* failAt throw
RECURSIVE createEntitiesFrom(_, _, _, _)
createEntitiesFrom(E, entities, i, failAt) ==
    IF i > Len(entities) THEN [graph |-> E, created |-> <<>>]
    ELSE IF i = failAt THEN createEntitiesFrom(E, entities, i + 1, failAt)
    ELSE IF MatchEntity(E, entities[i].name) = {}
    THEN CHOOSE r \in
           {[graph |-> rest.graph, created |-> <<entities[i]>> \o rest.created] :
              rest \in {createEntitiesFrom(CreateEntity(E, entities[i]), entities,
                                           i + 1, failAt)}} : TRUE
    ELSE createEntitiesFrom(E, entities, i + 1, failAt)

createEntities(E, entities, failAt) == createEntitiesFrom(E, entities, 1, failAt)

\* MATCH (e:Entity {name}) SET e.observations = e.observations + $newObservations
SetObservations(E, name, newObservations) ==
    {IF e.name = name THEN [e EXCEPT !.observations = @ \o newObservations] ELSE e :
        e \in E}

\* added[entityName] = contents
PutAdded(added, entityName, contents) ==
    {p \in added : p[1] # entityName} \cup {<<entityName, contents>>}

\* the loop of addObservations from the ith observation set on
RECURSIVE addObservationsFrom(_, _, _, _)
addObservationsFrom(E, observationSets, i, failAt) ==
    IF i > Len(observationSets) THEN [graph |-> E, added |-> {}]
    ELSE IF i = failAt THEN addObservationsFrom(E, observationSets, i + 1, failAt)
    ELSE IF MatchEntity(E, observationSets[i].entityName) # {}
    THEN CHOOSE r \in
           {[graph |-> rest.graph,
             added |-> IF \E p \in rest.added : p[1] = observationSets[i].entityName
                       THEN rest.added
                       ELSE PutAdded(rest.added, observationSets[i].entityName,
                                     observationSets[i].contents)] :
              rest \in {addObservationsFrom(
                          SetObservations(E, observationSets[i].entityName,
                                          observationSets[i].contents),
                          observationSets, i + 1, failAt)}} : TRUE
    ELSE addObservationsFrom(E, observationSets, i + 1, failAt)

addObservations(E, observationSets, failAt) ==
    addObservationsFrom(E, observationSets, 1, failAt)

NoGraphCall ==
    [tool |-> "none", ok |-> FALSE, args |-> <<>>, created |-> <<>>, ignored |-> 0,
     added |-> {}]

KgInit ==
    /\ kg_entities = {}
    /\ kg_last = NoGraphCall

\* the create_entities tool: the response names the created entities and counts
\* the ignored ones; withNeo4j throwing gives the error response
CreateEntitiesTool ==
    /\ \E entities \in UNION {[1..k -> EntityInputs] : k \in 1..MaxEntities},
          servicesOk \in BOOLEAN :
       \E failAt \in IF servicesOk THEN 0..Len(entities) ELSE {0} :
       \E r \in {IF servicesOk THEN createEntities(kg_entities, entities, failAt)
                 ELSE [graph |-> kg_entities, created |-> <<>>]} :
          /\ kg_entities' = r.graph
          /\ kg_last' = [NoGraphCall EXCEPT
                           !.tool = "create_entities", !.ok = servicesOk,
                           !.args = entities,
                           !.created = [i \in 1..Len(r.created) |-> r.created[i].name],
                           !.ignored = IF servicesOk
                                       THEN Len(entities) - Len(r.created) ELSE 0]
    /\ UNCHANGED <<injVars, srchVars, extVars, storeVars, embVars, chunkVars, detVars>>

\* the add_observations tool: the response is the map of the entities that
\* received observations; withNeo4j throwing gives the error response
AddObservationsTool ==
    /\ \E observations \in UNION {[1..k -> ObservationInputs] : k \in 1..MaxEntities},
          servicesOk \in BOOLEAN :
       \E failAt \in IF servicesOk THEN 0..Len(observations) ELSE {0} :
       \E r \in {IF servicesOk THEN addObservations(kg_entities, observations, failAt)
                 ELSE [graph |-> kg_entities, added |-> {}]} :
          /\ \A e \in r.graph : Len(e.observations) <= MaxObservations
          /\ kg_entities' = r.graph
          /\ kg_last' = [NoGraphCall EXCEPT
                           !.tool = "add_observations", !.ok = servicesOk,
                           !.args = observations, !.added = r.added]
    /\ UNCHANGED <<injVars, srchVars, extVars, storeVars, embVars, chunkVars, detVars>>

KgNext == CreateEntitiesTool \/ AddObservationsTool

(***************************************************************************)
(* Relationship detector (src/src/extractors/relationship-detector.ts)     *)
(*                                                                         *)
(* The content of an item is what the patterns of the detector find in it: *)
(* the function names, the whitespace-separated lower-case words, the      *)
(* declared class and type names, the imports and exports the JavaScript   *)
(* patterns match, and the lower-case names its text contains.             *)
(***************************************************************************)

Content(functions, words, classes, imports, exports, mentions) ==
    [functions |-> functions, words |-> words, classes |-> classes,
     imports |-> imports, exports |-> exports, mentions |-> mentions]

Item(ctype, language, content) ==
    [contextType |-> ctype, language |-> language, content |-> content]

\* items of an evolution: code with five functions, four of them kept, and a
\* rest of two; a discussion of four words, then five, and a decision
EvolvingItems ==
    { Item("code", "typescript",
           Content({"f1", "f2", "f3", "f4", "f5"}, {"code"}, {}, {}, {}, {})),
      Item("code", "typescript",
           Content({"f1", "f2", "f3", "f4", "g"}, {"code"}, {}, {}, {}, {})),
      Item("code", "typescript", Content({"f1", "h"}, {"code"}, {}, {}, {}, {})),
      Item("discussion", "none",
           Content({}, {"we", "cache", "the", "session"}, {}, {}, {}, {})),
      Item("discussion", "none",
           Content({}, {"we", "cache", "the", "session", "token"}, {}, {}, {}, {})),
      Item("decision", "none",
           Content({}, {"we", "cache", "the", "session", "token"}, {}, {}, {}, {})) }

\* items that depend on each other: an export and its import, a class and
\* its users in the same and in another language, and a discussion of it
DependentItems ==
    { Item("code", "typescript", Content({}, {"code"}, {}, {}, {"util"}, {})),
      Item("code", "typescript", Content({}, {"code"}, {}, {"util"}, {}, {})),
      Item("code", "typescript", Content({}, {"code"}, {"Parser"}, {}, {}, {"parser"})),
      Item("code", "typescript", Content({}, {"code"}, {}, {}, {}, {"parser"})),
      Item("code", "python", Content({}, {"code"}, {}, {}, {}, {"parser"})),
      Item("discussion", "none", Content({}, {"the", "parser"}, {}, {}, {}, {"parser"})) }

\* timestamps of the items, in milliseconds
Timestamps == {0, 3600000, 7200000}

\* the ith item of a call
Placed(i, item, timestamp) ==
    [id |-> i, contextType |-> item.contextType, language |-> item.language,
     content |-> item.content, timestamp |-> timestamp]

\* String.prototype.toLowerCase on the declared names
toLowerCase(name) == IF name = "Parser" THEN "parser" ELSE name

\* the content types in the order the Map of groupByType got them
RECURSIVE TypesOf(_)
TypesOf(contexts) ==
    IF contexts = <<>> THEN <<>>
    ELSE LET Other(c) == c.contextType # Head(contexts).contextType
         IN <<Head(contexts).contextType>> \o TypesOf(SelectSeq(Tail(contexts), Other))

\* groupByType: the items of each type, in the order of the input
groupByType(contexts) ==
    LET types == TypesOf(contexts)
    IN [k \in 1..Len(types) |->
           LET OfType(c) == c.contextType = types[k] IN SelectSeq(contexts, OfType)]

\* the list as it is, a sort left out
sortAsGiven(typeContexts) == typeContexts

\* typeContexts.sort by timestamp; the sort is stable
RECURSIVE sortByTimestamp(_)
sortByTimestamp(typeContexts) ==
    IF typeContexts = <<>> THEN <<>>
    ELSE LET i == CHOOSE i \in DOMAIN typeContexts :
                      \A j \in DOMAIN typeContexts :
                          \/ typeContexts[i].timestamp < typeContexts[j].timestamp
                          \/ /\ typeContexts[i].timestamp = typeContexts[j].timestamp
                             /\ i <= j
         IN <<typeContexts[i]>> \o
            sortByTimestamp(SubSeq(typeContexts, 1, i - 1) \o
                            SubSeq(typeContexts, i + 1, Len(typeContexts)))

\* setOverlap: the share of the smaller set that is in both, as
\* <<numerator, denominator>>; 0 when a set is empty
setOverlap(set1, set2) ==
    IF set1 = {} \/ set2 = {} THEN <<0, 1>>
    ELSE <<Cardinality(set1 \cap set2), Min(Cardinality(set1), Cardinality(set2))>>

\* calculateTextSimilarity: intersection over union of the words, as
\* <<numerator, denominator>>
calculateTextSimilarity(words1, words2) ==
    <<Cardinality(words1 \cap words2), Cardinality(words1 \cup words2)>>

\* isEvolution: overlap > 0.5 for code, 0.6 < similarity < 0.95 otherwise
isEvolution(current, next) ==
    IF current.contextType # next.contextType THEN FALSE
    ELSE IF current.contextType = "code"
    THEN \E overlap \in {setOverlap(current.content.functions, next.content.functions)} :
            2 * overlap[1] > overlap[2]
    ELSE \E similarity \in {calculateTextSimilarity(current.content.words,
                                                    next.content.words)} :
            /\ 10 * similarity[1] > 6 * similarity[2]
            /\ 100 * similarity[1] < 95 * similarity[2]

\* the inner loop of detectEvolution over one sorted group, from index i
RECURSIVE EvolutionsFrom(_, _)
EvolutionsFrom(sorted, i) ==
    IF i >= Len(sorted) THEN <<>>
    ELSE (IF isEvolution(sorted[i], sorted[i + 1])
          THEN << [fromId |-> sorted[i].id, toId |-> sorted[i + 1].id,
                   type |-> "EVOLVES_TO",
                   timeDelta |-> sorted[i + 1].timestamp - sorted[i].timestamp] >>
          ELSE <<>>) \o EvolutionsFrom(sorted, i + 1)

\* the outer loop of detectEvolution over the groups, from group k
RECURSIVE EvolutionsOfGroups(_, _)
EvolutionsOfGroups(groups, k) ==
    IF k > Len(groups) THEN <<>>
    ELSE EvolutionsFrom(sortByTimestamp(groups[k]), 1) \o EvolutionsOfGroups(groups, k + 1)

\* RelationshipDetector.detectEvolution
detectEvolution(contexts) == EvolutionsOfGroups(groupByType(contexts), 1)

\* extractImports and extractExports: the patterns run for JavaScript and
\* TypeScript only; metadata.language may be absent ("none")
extractImports(content, language) ==
    IF language \in {"javascript", "typescript"} THEN content.imports ELSE {}

extractExports(content, language) ==
    IF language \in {"javascript", "typescript"} THEN content.exports ELSE {}

\* the class test of hasDependency left out
hasDependencyOnImports(source, target) ==
    /\ source.language = target.language
    /\ extractImports(source.content, source.language)
          \cap extractExports(target.content, target.language) # {}

\* hasDependency: the same language, and an export of the target imported by
\* the source or a class name of the target in the text of the source
hasDependency(source, target) ==
    IF source.language # target.language THEN FALSE
    ELSE \/ extractImports(source.content, source.language)
              \cap extractExports(target.content, target.language) # {}
         \/ \E className \in target.content.classes :
                toLowerCase(className) \in source.content.mentions

\* getDependencyType
getDependencyType(source, target) ==
    IF /\ extractImports(source.content, source.language) # {}
       /\ extractExports(target.content, target.language) # {}
    THEN "import"
    ELSE IF target.content.classes # {} THEN "inheritance" ELSE "usage"

\* the loops of detectDependencies from the pair (i, j) on
RECURSIVE DependenciesFrom(_, _, _)
DependenciesFrom(codeContexts, i, j) ==
    IF i > Len(codeContexts) THEN <<>>
    ELSE IF j > Len(codeContexts) THEN DependenciesFrom(codeContexts, i + 1, 1)
    ELSE (IF i # j /\ hasDependency(codeContexts[i], codeContexts[j])
          THEN << [fromId |-> codeContexts[i].id, toId |-> codeContexts[j].id,
                   type |-> "DEPENDS_ON",
                   dependencyType |-> getDependencyType(codeContexts[i],
                                                        codeContexts[j])] >>
          ELSE <<>>) \o DependenciesFrom(codeContexts, i, j + 1)

\* RelationshipDetector.detectDependencies
detectDependencies(contexts) ==
    LET IsCode(c) == c.contextType = "code"
    IN DependenciesFrom(SelectSeq(contexts, IsCode), 1, 1)

NoDetection == [op |-> "none", input |-> <<>>, out |-> <<>>]

DetInit == det_call = NoDetection

\* detectEvolution on the items of one call
DetectEvolution ==
    /\ det_call.op = "none"
    /\ \E n \in 0..MaxItems :
       \E items \in [1..n -> EvolvingItems], times \in [1..n -> Timestamps] :
       \E contexts \in {[i \in 1..n |-> Placed(i, items[i], times[i])]} :
          det_call' = [op |-> "detectEvolution", input |-> contexts,
                       out |-> detectEvolution(contexts)]
    /\ UNCHANGED <<injVars, srchVars, extVars, storeVars, embVars, kgVars, chunkVars>>

\* detectDependencies on the items of one call
DetectDependencies ==
    /\ det_call.op = "none"
    /\ \E n \in 0..MaxItems :
       \E items \in [1..n -> DependentItems] :
       \E contexts \in {[i \in 1..n |-> Placed(i, items[i], 0)]} :
          det_call' = [op |-> "detectDependencies", input |-> contexts,
                       out |-> detectDependencies(contexts)]
    /\ UNCHANGED <<injVars, srchVars, extVars, storeVars, embVars, kgVars, chunkVars>>

DetNext == DetectEvolution \/ DetectDependencies

(***************************************************************************)
(* Specifications                                                          *)
(***************************************************************************)

Init ==
    InjInit /\ SrchInit /\ StoreInit /\ ExtInit /\ EmbInit /\ KgInit /\ ChunkInit
    /\ DetInit

SpecInject == Init /\ [][InjNext]_vars

SpecSearch == Init /\ [][SrchNext]_vars

SpecStore == Init /\ [][StoreNext]_vars

SpecTools == Init /\ [][ToolsNext]_vars

SpecExtract == Init /\ [][ExtNext]_vars

SpecEmbed == Init /\ [][EmbNext]_vars

SpecGraph == Init /\ [][KgNext]_vars

SpecDetect == Init /\ [][DetNext]_vars

\* the loop of chunkText runs on once it has started
SpecChunk == Init /\ [][ChunkNext]_vars /\ WF_vars(ChunkNext)

(***************************************************************************)
(* Claims on the injector and the inject_context tool                      *)
(***************************************************************************)

RECURSIVE SumTokens(_)
SumTokens(entries) ==
    IF entries = <<>> THEN 0 ELSE Head(entries).tokens + SumTokens(Tail(entries))

Prepared == inj_call.op = "prepare" /\ inj_call.out.outcome = "returned"

\* C1: whatever the candidates, the positive maxTokens and the preferred format,
\* the selection returned by prepareContextForInjection has a totalTokens, and a
\* sum of its entries' tokens, of at most maxTokens (forced-summary step included).
C1_WithinBudget ==
    Prepared =>
        /\ inj_call.out.totalTokens <= inj_call.maxTokens
        /\ SumTokens(inj_call.out.contexts) <= inj_call.maxTokens

\* C1 witness: a selection of several entries that uses the whole budget
C1_Witness ==
    /\ Prepared
    /\ Len(inj_call.out.contexts) >= 2
    /\ inj_call.out.totalTokens = inj_call.maxTokens

\* C2: the totalTokens reported by the inject_context tool never exceeds maxTokens
C2_ToolWithinBudget ==
    (inj_call.op = "inject_context" /\ inj_call.out.outcome = "returned")
        => inj_call.out.totalTokens <= inj_call.maxTokens

(***************************************************************************)
(* Claims on the hybrid search engine                                      *)
(***************************************************************************)

SemanticCall == srch_call.op = "searchContexts" /\ srch_call.useSemanticSearch

\* the embedding or the vector query failed during the call
SemanticBackendFailed ==
    \/ ~srch_call.env.embedOk
    \/ srch_call.env.hasVectorIndex /\ ~srch_call.env.vectorOk

ExpectedKeywordResults ==
    KeywordResults(srch_call.store, srch_call.query, srch_call.ctypeFilter,
                   srch_call.limit, srch_call.projectId)

\* C4: a searchContexts call with useSemanticSearch=true whose embedding
\* generation or vector query fails returns the keyword-path results whenever the
\* keyword query succeeds, and such a call throws only if a keyword query failed.
C4_SemanticFallsBack ==
    SemanticCall =>
        /\ (SemanticBackendFailed /\ srch_call.env.keywordOk[1])
              => /\ srch_call.out.outcome = "returned"
                 /\ srch_call.out.path = "keyword"
                 /\ srch_call.out.results = ExpectedKeywordResults
        /\ srch_call.out.outcome = "threw"
              => /\ srch_call.out.keywordQueries >= 1
                 /\ ~srch_call.env.keywordOk[srch_call.out.keywordQueries]

\* C4 witness: the embedding failed and the call returned a non-empty keyword result
C4_Witness ==
    /\ SemanticCall
    /\ ~srch_call.env.embedOk
    /\ srch_call.out.outcome = "returned"
    /\ srch_call.out.path = "keyword"
    /\ Len(srch_call.out.results) = 2

(***************************************************************************)
(* Claims about the tools that write to the graph                          *)
(***************************************************************************)

\* the logins the repository lists as allowed to write
WriteWhitelist == WRITE_USERS \cup ALLOWED_USERNAMES

\* C3: a tool call modifies the graph (creates, changes or deletes a node or a
\* relationship) only in a session whose GitHub login is in the write whitelist
C3_OnlyWhitelistedWrites ==
    (g_last.tool # "none" /\ g_last.modified) => g_session.login \in WriteWhitelist

\* the BELONGS_TO edges that leave a Context node
OwnershipEdges(n) == {e \in g_edges : e.from = n.nid /\ e.type = "BELONGS_TO"}

\* C5: after any sequence of extract_context and extract_from_export calls,
\* every Context node has exactly one outgoing BELONGS_TO edge, and the call
\* that created the node created that edge
C5_OneOwnershipEdge ==
    \A n \in g_ctx :
        /\ Cardinality(OwnershipEdges(n)) = 1
        /\ \A e \in OwnershipEdges(n) : e.by = n.by

\* two calls have stored items for the same chat id, the first an import, the
\* second an extract_context call that named the imported chat
C5_Witness ==
    /\ g_last.tool = "extract_context"
    /\ g_last.ok
    /\ \E n \in g_ctx, m \in g_ctx, c \in g_chats :
          /\ n.by # m.by
          /\ n.chatId = c.id
          /\ m.chatId = c.id
          /\ c.isImported

\* C6: a successful extract_context call keeps the items of highest
\* importance: no item it dropped scores strictly higher than an item it kept
C6_KeepsHighestImportance ==
    (g_last.tool = "extract_context" /\ g_last.ok) =>
        \A i \in DOMAIN g_last.kept, j \in DOMAIN g_last.dropped :
            g_last.dropped[j].importanceScore <= g_last.kept[i].importanceScore

\* a successful extract_context call with the inputs of an earlier successful one
IsRetry ==
    /\ g_calls' = g_calls + 1
    /\ g_last'.tool = "extract_context"
    /\ g_last'.ok
    /\ g_last'.args \in g_done

\* C7: an extract_context call that repeats the content, chatId and projectId
\* of an earlier successful call adds no Context node and no edge
C7_RetryAddsNothing ==
    [][IsRetry => (g_ctx' = g_ctx /\ g_edges' = g_edges)]_vars

(***************************************************************************)
(* Claims about the functions of the extractor                             *)
(***************************************************************************)

\* C8: for an item whose tokenCount is above the ceiling, the estimated token
\* count of the summary is strictly less than the item's tokenCount
C8_SummaryShorter ==
    (ext_call.op = "summarizeIfNeeded" /\ ext_call.input.tokenCount > maxContextTokens)
        => countTokens(ext_call.out.summaryLen) < ext_call.input.tokenCount

Classified == ext_call.op \in {"extractDecisions", "extractRequirements", "extractErrors"}

ContentLength(item) == TextLength(item.lines)

\* C9 as stated: the content stored for a returned decision or requirement item
\* has 20 to 500 characters, the content stored for a returned error item has
\* 30 to 1000 characters
C9_ContentWithinRange ==
    Classified =>
        \A i \in DOMAIN ext_call.out :
            IF ext_call.out[i].ctype = "error"
            THEN ContentLength(ext_call.out[i]) \in 30..1000
            ELSE ContentLength(ext_call.out[i]) \in 20..500

\* C9: a returned decision or requirement item stems from a match whose
\* captured text has 20 to 500 characters; the content stored for it is the
\* whole match, trigger phrase included, and has at least 20 characters; the
\* content stored for a returned error item has 30 to 1000 characters
C9_CapturedWithinRange ==
    Classified =>
        \A i \in DOMAIN ext_call.out :
            IF ext_call.out[i].ctype = "error"
            THEN ContentLength(ext_call.out[i]) \in 30..1000
            ELSE /\ ContentLength(ext_call.out[i]) >= 20
                 /\ \E k \in DOMAIN ext_call.input :
                       /\ ext_call.input[k].text = ext_call.out[i].text
                       /\ TextLength(ext_call.input[k].lines) \in 20..500
                       /\ ContentLength(ext_call.out[i])
                            = ext_call.input[k].lead + TextLength(ext_call.input[k].lines)

\* a returned decision whose stored content is longer than 500 characters
C9_Witness ==
    /\ ext_call.op = "extractDecisions"
    /\ \E i \in DOMAIN ext_call.out : ContentLength(ext_call.out[i]) > 500

(***************************************************************************)
(* Claims about the embeddings service                                     *)
(***************************************************************************)

\* a vector the model produced for the text
ProducedFor(vector, text) ==
    /\ vector.of = truncateText(text)
    /\ vector.run \in 1..emb_runs

\* C10: whatever the interleaving of the calls, a call that has finished has
\* returned a vector the model produced for its own text, unless its own model
\* run failed, and the cache entry under the key of a text is a vector the
\* model produced for that text, written by a call for that text
C10_ConcurrentEmbeddings ==
    /\ \A c \in Calls :
          emb_proc[c].pc = "done" =>
              \/ /\ emb_proc[c].outcome = "returned"
                 /\ ProducedFor(emb_proc[c].vector, emb_proc[c].text)
              \/ /\ emb_proc[c].outcome = "threw"
                 /\ emb_proc[c].ran = "failed"
    /\ \A text \in Texts :
          emb_cache[getCacheKey(text)] # NoVector =>
              /\ ProducedFor(emb_cache[getCacheKey(text)], text)
              /\ \E c \in Calls :
                    /\ emb_proc[c].text = text
                    /\ emb_proc[c].vector = emb_cache[getCacheKey(text)]

\* two calls on the same text both missed the cache, both ran the model and
\* both wrote; the entry is the vector of one of them
C10_Witness ==
    \E c \in Calls, d \in Calls :
        /\ c # d
        /\ emb_proc[c].text = emb_proc[d].text
        /\ emb_proc[c].pc = "done" /\ emb_proc[d].pc = "done"
        /\ emb_proc[c].outcome = "returned" /\ emb_proc[d].outcome = "returned"
        /\ emb_proc[c].vector.run # emb_proc[d].vector.run
        /\ emb_cache[emb_proc[c].cacheKey] = emb_proc[d].vector
        /\ emb_proc[d].vector.run > emb_proc[c].vector.run

(***************************************************************************)
(* Claims about the injector, continued                                   *)
(***************************************************************************)

\* what two selections are compared on: the items in order with their formats
\* and tokens, totalTokens and the strategy (the combined scores left out)
ItemsOf(out) ==
    [items |-> [i \in 1..Len(out.contexts) |->
                    [id |-> out.contexts[i].id, format |-> out.contexts[i].format,
                     tokens |-> out.contexts[i].tokens]],
     totalTokens |-> out.totalTokens,
     injectionStrategy |-> out.injectionStrategy]

\* C11: prioritisation and selection run twice on the same search results,
\* weights, maxTokens and format return the same selection (items, order,
\* formats, totalTokens, strategy), whatever the two moments
C11_SameSelection ==
    inj_call.op = "selectTwice" => ItemsOf(inj_call.out) = ItemsOf(inj_call.again)

\* C12: a call of prepareContextForInjection that returns an empty selection
\* returns totalTokens 0 and the strategy no_results or token_limit_reached
C12_EmptySelectionLabelled ==
    (Prepared /\ inj_call.out.outcome = "returned" /\ inj_call.out.contexts = <<>>)
        => /\ inj_call.out.totalTokens = 0
           /\ inj_call.out.injectionStrategy \in {"no_results", "token_limit_reached"}

\* the candidate a tryAddContext call was given
Tried == inj_call.results[1]

\* the tokens a format costs, and whether the candidate has that form
FormatTokens(r, f) ==
    CASE f = "full" -> r.tokenCount
      [] f = "summary" -> estimateTokens(r.summaryLen)
      [] f = "reference" -> RefTokens

HasFormat(r, f) == f = "summary" => r.summaryLen > 0

Fits(r, f, currentTokens, maxTokens) ==
    HasFormat(r, f) /\ currentTokens + FormatTokens(r, f) <= maxTokens

\* the preferred format, then full, summary, reference
FormatOrder(preferred) == <<preferred, "full", "summary", "reference">>

\* C20: tryAddContext adds the candidate in the first format that fits, of the
\* preferred format followed by full, summary, reference, and skips the
\* candidate only if no format fits
C20_FirstFittingFormat ==
    inj_call.op = "tryAddContext" =>
        LET order == FormatOrder(inj_call.format)
            fitting == {i \in 1..Len(order) :
                          Fits(Tried, order[i], inj_call.currentTokens, inj_call.maxTokens)}
        IN /\ inj_call.out.added <=> fitting # {}
           /\ inj_call.out.added =>
                \E i \in fitting :
                    /\ \A j \in fitting : i <= j
                    /\ inj_call.out.selected[1].format = order[i]
                    /\ inj_call.out.selected[1].tokens = FormatTokens(Tried, order[i])

\* the example of C20: maxTokens 100, preferred format full, one candidate of
\* 150 full tokens whose summary costs 40 tokens, is included as a summary
C20_Example ==
    (/\ inj_call.op = "tryAddContext" /\ inj_call.maxTokens = 100
     /\ inj_call.format = "full" /\ inj_call.currentTokens = 0
     /\ Tried.tokenCount = 150 /\ Tried.summaryLen = 158)
        => /\ inj_call.out.added
           /\ inj_call.out.selected[1].format = "summary"
           /\ inj_call.out.selected[1].tokens = 40

(***************************************************************************)
(* Claims about the management tools                                       *)
(***************************************************************************)

\* the last call was a manage_relationships create
CreateRequest ==
    g_last.tool = "manage_relationships" /\ g_last.args.action = "create"

\* an endpoint of the request is the id of no stored Context node
EndpointMissing ==
    \/ \A n \in g_ctx : n.id # g_last.args.fromId
    \/ \A n \in g_ctx : n.id # g_last.args.toId

\* C13: a manage_relationships create request whose fromId or toId is the id of
\* no stored Context node returns the error response and leaves the graph as
\* it was: no edge, no node
C13_MissingEndpointRejected ==
    (CreateRequest /\ EndpointMissing) => (~g_last.ok /\ ~g_last.modified)

\* a create request between a stored context and a missing one, on a graph
\* that holds contexts, was answered with the error response
C13_Witness ==
    /\ CreateRequest /\ ~g_last.ok /\ ~g_last.modified
    /\ \E n \in g_ctx : n.id = g_last.args.fromId
    /\ \A n \in g_ctx : n.id # g_last.args.toId

\* the sum of tokenCount over a list of items
TokenCountOf(items) == SumSeq([i \in 1..Len(items) |-> items[i].tokenCount])

\* C17: the totalTokens reported by a successful extract_context call is the sum
\* of tokenCount over the items the call returns and stores
C17_TotalIsSumOfReturned ==
    (g_last.tool = "extract_context" /\ g_last.ok)
        => g_last.totalTokens = TokenCountOf(g_last.kept)

(***************************************************************************)
(* Claims about an extraction run and its relationships                   *)
(***************************************************************************)

\* the last call was an extraction that succeeded
Extracted ==
    g_last.tool \in {"extract_context", "extract_from_export"} /\ g_last.ok

\* C14 as stated: the relationships an extraction run returns hold, for each
\* returned item, a BELONGS_TO edge from the item's id to the chat id
C14_ReturnedBelongsTo ==
    Extracted =>
        \A i \in DOMAIN g_last.kept :
            \E j \in DOMAIN g_last.relationships :
                /\ g_last.relationships[j].type = "BELONGS_TO"
                /\ g_last.relationships[j].fromId = g_last.kept[i].id
                /\ g_last.relationships[j].toId = g_last.kept[i].chatId

\* C14: after an extraction that succeeded the graph holds, for each returned
\* item, a BELONGS_TO edge from the item's node to the node of its chat, and
\* the relationships the extractor returned hold no BELONGS_TO edge
C14_StoredBelongsTo ==
    Extracted =>
        /\ \A i \in DOMAIN g_last.kept :
              \E n \in g_ctx, c \in g_chats, e \in g_edges :
                  /\ n.id = g_last.kept[i].id
                  /\ c.id = g_last.kept[i].chatId
                  /\ e.type = "BELONGS_TO" /\ e.from = n.nid /\ e.to = c.nid
        /\ \A j \in DOMAIN g_last.relationships :
              g_last.relationships[j].type # "BELONGS_TO"

\* an extraction returned at least two items and at least one relationship
C14_Witness ==
    Extracted /\ Len(g_last.kept) >= 2 /\ g_last.relationships # <<>>

(***************************************************************************)
(* Claims about scoring and similarity                                     *)
(***************************************************************************)

\* C18: for every item type, token count and set of matched importance
\* keywords, the importanceScore that scoreContext assigns lies in [0,1]
\* (0..100 percent)
C18_ScoreInUnitInterval ==
    ext_call.op = "scoreContext" =>
        (ext_call.out.importanceScore >= 0 /\ ext_call.out.importanceScore <= 100)

\* an error item of more than 500 tokens that matches every keyword: the
\* bonuses add up to more than 1 and the score assigned is 1
C18_Witness ==
    /\ ext_call.op = "scoreContext"
    /\ ext_call.input.ctype = "error" /\ ext_call.input.tokenCount > 500
    /\ ext_call.input.keywords = ImportanceKeywords
    /\ ext_call.out.importanceScore = 100

\* a quotient <<numerator, denominator>> is NaN when it is 0 / 0
IsNaN(q) == q[2] = 0

\* equality of two quotients as numbers: NaN equals nothing, itself included
NumberEquals(p, q) == ~IsNaN(p) /\ ~IsNaN(q) /\ p[1] * q[2] = q[1] * p[2]

SimilarityCall == ext_call.op = "calculateSimilarity"

ReportedNames(created) == {created[i] : i \in DOMAIN created}

\* no two Entity nodes have the same name
OneEntityPerName ==
    \A e1 \in kg_entities, e2 \in kg_entities : e1.name = e2.name => e1 = e2

\* a create_entities call leaves every entity that existed as it was, and
\* reports none of them as created
ExistingEntitiesKept ==
    kg_last'.tool = "create_entities" =>
        \A e \in kg_entities :
            /\ e \in kg_entities'
            /\ e.name \notin ReportedNames(kg_last'.created)

\* C15: after any sequence of create_entities calls (and add_observations
\* calls) there is at most one Entity node per name, and a call that names an
\* existing entity leaves its type and observations unchanged and does not
\* report it among the created entities
C15_OneEntityPerName == [](OneEntityPerName) /\ [][ExistingEntitiesKept]_vars

\* a create_entities call named, with another type, an entity that is stored,
\* and did not report it
C15_Witness ==
    /\ kg_last.tool = "create_entities" /\ kg_last.ok
    /\ \E i \in DOMAIN kg_last.args, e \in kg_entities :
          /\ e.name = kg_last.args[i].name
          /\ e.entityType # kg_last.args[i].entityType
          /\ e.name \notin ReportedNames(kg_last.created)

\* C16: an add_observations call that names an entity which does not exist
\* returns an error, not a success response
C16_MissingEntityFails ==
    (/\ kg_last.tool = "add_observations"
     /\ \E i \in DOMAIN kg_last.args :
           \A e \in kg_entities : e.name # kg_last.args[i].entityName)
        => ~kg_last.ok

(***************************************************************************)
(* Claims about the tiers of the selection                                 *)
(***************************************************************************)

\* the tokens of the entries selected before the ith
TokensBefore(contexts, i) ==
    SumSeq([j \in 1..(i - 1) |-> contexts[j].tokens])

\* C21: once the cumulative total has reached 90% of maxTokens, no candidate of
\* the regular tier (combined score below 0.8) is added to the selection
C21_NoRegularAfterNinetyPercent ==
    Prepared =>
        \A i \in DOMAIN inj_call.out.contexts :
            inj_call.out.contexts[i].score < CriticalThreshold
                => ~BudgetNearlyUsed(TokensBefore(inj_call.out.contexts, i),
                                     inj_call.maxTokens)

\* the candidates of the call in the order of their combined scores
Ranked == prioritizeContexts(inj_call.results)

\* the top-ranked candidate has a summary, and the summary alone fits
TopSummaryFits ==
    /\ Ranked[1].summaryLen > 0
    /\ estimateTokens(Ranked[1].summaryLen) <= inj_call.maxTokens

\* C22: when the tiered pass added nothing, the selection is the summary of the
\* top-ranked candidate, alone, if that candidate has a summary whose estimated
\* tokens are at most maxTokens, and is empty otherwise
C22_ForcedSummaryOnlyOfSummary ==
    (Prepared /\ inj_call.results # <<>>) =>
        /\ inj_call.out.injectionStrategy = "forced_summary" =>
              /\ TopSummaryFits
              /\ inj_call.out.contexts =
                    <<Entry(Ranked[1], "summary", estimateTokens(Ranked[1].summaryLen))>>
        /\ inj_call.out.contexts = <<>> => ~TopSummaryFits

\* C29: in every selection returned by selectContextsWithinBudget, totalTokens
\* is the sum of the entries' tokens, the tokens of an entry are the cost of
\* its format (tokenCount for full, ceil(summary length / 4) for summary, 50
\* for reference), and no candidate is selected twice
C29_TotalIsSumOfEntries ==
    Prepared =>
        LET contexts == inj_call.out.contexts
        IN /\ inj_call.out.totalTokens = SumTokens(contexts)
           /\ \A i \in DOMAIN contexts :
                 contexts[i].tokens =
                    FormatTokens(inj_call.results[contexts[i].id], contexts[i].format)
           /\ \A i \in DOMAIN contexts, j \in DOMAIN contexts :
                 contexts[i].id = contexts[j].id => i = j

\* a selection of three entries in three formats
C29_Witness ==
    /\ Prepared
    /\ Len(inj_call.out.contexts) = 3
    /\ {inj_call.out.contexts[i].format : i \in DOMAIN inj_call.out.contexts} = Formats

(***************************************************************************)
(* Claims about the RELATED_TO edges of a run                              *)
(***************************************************************************)

\* the RELATED_TO edges of the run that join the items a and b, in any direction
RelatedEdges(a, b) ==
    {k \in DOMAIN ext_call.out :
        /\ ext_call.out[k].type = "RELATED_TO"
        /\ {ext_call.out[k].fromId, ext_call.out[k].toId} = {a, b}}

C26_KeywordQueryOnce ==
    srch_call.op = "searchContexts" => srch_call.out.keywordQueries <= 1

\* a read of the graph around an item, asked for an id that no stored context has
ReadOfMissingId ==
    /\ srch_call.op \in {"findRelatedContexts", "getEvolutionChain"}
    /\ \A c \in srch_call.store : c.id # srch_call.contextId

\* C28: with the persistence service available, findRelatedContexts and
\* getEvolutionChain called with an id that matches no stored context return
\* an empty result (an empty list; empty contexts and path) and do not throw
C28_MissingIdReadsEmpty ==
    (ReadOfMissingId /\ srch_call.env.servicesOk) =>
        /\ srch_call.out.outcome = "returned"
        /\ srch_call.op = "findRelatedContexts" => srch_call.out.results = <<>>
        /\ srch_call.op = "getEvolutionChain" =>
              (srch_call.out.contexts = <<>> /\ srch_call.out.path = <<>>)

\* getEvolutionChain was asked for a missing id over a graph that holds an
\* evolution chain and returned nothing
C28_Witness ==
    /\ ReadOfMissingId /\ srch_call.env.servicesOk
    /\ srch_call.op = "getEvolutionChain"
    /\ \E l \in srch_call.links : l.type = "EVOLVES_TO"
    /\ srch_call.out.outcome = "returned" /\ srch_call.out.contexts = <<>>

\* C27: the text truncateText hands to the model is at most the maximum input
\* size long (8000 characters), and a text within the limit is handed over
\* unchanged
C27_TruncatedWithinMaximum ==
    \A c \in Calls :
        emb_proc[c].ran = "ok" =>
            /\ emb_proc[c].vector.of.length <= MaxInputLength
            /\ emb_proc[c].text.length <= MaxInputLength =>
                  emb_proc[c].vector.of = emb_proc[c].text

(***************************************************************************)
(* Claims about the text chunking                                          *)
(***************************************************************************)

\* the characters of the text that some chunk holds
Chunked == {i \in 1..chunk_call.length :
               \E k \in DOMAIN chunk_call.chunks :
                   chunk_call.chunks[k][1] < i /\ i <= chunk_call.chunks[k][2]}

\* C30: chunkText terminates for every text, every maxLength >= 1 and every
\* overlap >= 0; no chunk is longer than maxLength, and the chunks of the
\* returned list hold every character of the text
C30_ChunkTextTerminates ==
    /\ [](\A k \in DOMAIN chunk_call.chunks :
             chunk_call.chunks[k][2] - chunk_call.chunks[k][1] <= chunk_call.maxLength)
    /\ [](chunk_call.pc = "done" => Chunked = 1..chunk_call.length)
    /\ (chunk_call.pc = "loop") ~> (chunk_call.pc = "done")

(***************************************************************************)
(* Claims about the relationship detector                                  *)
(***************************************************************************)

\* item i comes before item j in time (in the order of the input when their
\* timestamps are equal)
Precedes(contexts, i, j) ==
    \/ contexts[i].timestamp < contexts[j].timestamp
    \/ contexts[i].timestamp = contexts[j].timestamp /\ i < j

\* items i and j are of one type and no item of that type lies between them
TimeConsecutive(contexts, i, j) ==
    /\ contexts[i].contextType = contexts[j].contextType
    /\ Precedes(contexts, i, j)
    /\ ~ \E k \in DOMAIN contexts :
           /\ contexts[k].contextType = contexts[i].contextType
           /\ Precedes(contexts, i, k) /\ Precedes(contexts, k, j)

\* the test of the type: more than half of the smaller set of function names
\* shared (code), a Jaccard quotient of the words in (0.6, 0.95) (other types)
PassesTypeTest(a, b) ==
    IF a.contextType = "code"
    THEN 2 * Cardinality(a.content.functions \cap b.content.functions) >
             Min(Cardinality(a.content.functions), Cardinality(b.content.functions))
    ELSE /\ 10 * Cardinality(a.content.words \cap b.content.words) >
                6 * Cardinality(a.content.words \cup b.content.words)
         /\ 100 * Cardinality(a.content.words \cap b.content.words) <
                95 * Cardinality(a.content.words \cup b.content.words)

\* the edges of the last call
EdgesOut == {det_call.out[k] : k \in DOMAIN det_call.out}

\* C23: detectEvolution emits an EVOLVES_TO edge for a pair of items exactly
\* when they are time-consecutive items of the same type that pass the test of
\* the type; the edge goes from the earlier to the later item and its
\* timeDelta is the difference of their timestamps in milliseconds
C23_EvolvesToConsecutive ==
    det_call.op = "detectEvolution" =>
        /\ EdgesOut =
              { [fromId |-> i, toId |-> j, type |-> "EVOLVES_TO",
                 timeDelta |-> det_call.input[j].timestamp - det_call.input[i].timestamp] :
                  <<i, j>> \in {p \in (DOMAIN det_call.input) \X (DOMAIN det_call.input) :
                                  /\ TimeConsecutive(det_call.input, p[1], p[2])
                                  /\ PassesTypeTest(det_call.input[p[1]],
                                                    det_call.input[p[2]])} }
        /\ Len(det_call.out) = Cardinality(EdgesOut)

\* two code items one hour apart that share four of five function names,
\* given latest first with a discussion between them, are linked from the
\* earlier to the later with a timeDelta of 3,600,000
C23_Witness ==
    /\ det_call.op = "detectEvolution"
    /\ Len(det_call.input) = 3
    /\ det_call.input[1].contextType = "code" /\ det_call.input[3].contextType = "code"
    /\ det_call.input[2].contextType = "discussion"
    /\ Cardinality(det_call.input[1].content.functions
                       \cap det_call.input[3].content.functions) = 4
    /\ det_call.out = << [fromId |-> 3, toId |-> 1, type |-> "EVOLVES_TO",
                          timeDelta |-> 3600000] >>

\* source depends on target by the description: an import of the source is an
\* export of the target, or the text of the source contains a class or type
\* name the target declares
DependsByDescription(source, target) ==
    \/ extractImports(source.content, source.language)
           \cap extractExports(target.content, target.language) # {}
    \/ \E className \in target.content.classes :
           toLowerCase(className) \in source.content.mentions

\* the pairs of distinct code items of the last call
CodePairs ==
    {p \in (DOMAIN det_call.input) \X (DOMAIN det_call.input) :
        /\ p[1] # p[2]
        /\ det_call.input[p[1]].contextType = "code"
        /\ det_call.input[p[2]].contextType = "code"}

\* the pairs detectDependencies has linked
Linked == {<<e.fromId, e.toId>> : e \in EdgesOut}

\* C24: detectDependencies emits DEPENDS_ON edges only between two distinct
\* code items, and emits one from A to B whenever an import of A is an export
\* of B or the text of A contains a class or type name declared by B
C24_DependsOnWhenever ==
    det_call.op = "detectDependencies" =>
        /\ Linked \subseteq CodePairs
        /\ \A p \in CodePairs :
              DependsByDescription(det_call.input[p[1]], det_call.input[p[2]]) =>
                  p \in Linked

\* C24 (amended): detectDependencies emits DEPENDS_ON edges only between two
\* distinct code items, one per ordered pair, and emits one from A to B
\* exactly when A and B have the same metadata.language and an import of A is
\* an export of B or the text of A contains a class or type name declared by B
C24_DependsOnInOneLanguage ==
    det_call.op = "detectDependencies" =>
        /\ Linked =
              {p \in CodePairs :
                  /\ det_call.input[p[1]].language = det_call.input[p[2]].language
                  /\ DependsByDescription(det_call.input[p[1]], det_call.input[p[2]])}
        /\ \A e \in EdgesOut : e.type = "DEPENDS_ON"
        /\ Len(det_call.out) = Cardinality(Linked)

\* a class declared in TypeScript, named in a TypeScript item and in a Python
\* item: only the TypeScript item depends on it
C24_Witness ==
    /\ det_call.op = "detectDependencies"
    /\ Len(det_call.input) = 3
    /\ det_call.input[1].content.classes = {"Parser"}
    /\ det_call.input[2].language = "python"
    /\ "parser" \in det_call.input[2].content.mentions
    /\ det_call.input[3].language = "typescript"
    /\ det_call.input[3].content.classes = {}
    /\ Linked = {<<3, 1>>}

=============================================================================
